---- MODULE Spec2Model ----
(***************************************************************************)
(* State-machine model of the go-fiber-storage adapters: the relational    *)
(* adapters (mysql, postgres, sqlite3), the redis adapter and the memcache *)
(* adapter, in their Result-returning and their original (value, error)    *)
(* variants.  Two adapter instances, A and B, share one engine (one table, *)
(* one redis database, one memcache server).                               *)
(*                                                                         *)
(* Time is counted in half seconds, so that a duration shorter than one    *)
(* second and the whole-second truncation of time.Time.Unix() both exist.  *)
(* Strings that the code takes apart (keys, namespaces) are sequences of   *)
(* one-character strings.                                                  *)
(***************************************************************************)
EXTENDS Integers, Sequences, FiniteSets, TLC

VARIABLES kind, namespace, now, table, last

\* Adapter A's GC goroutine and Close call (relational adapters): where each
\* of the two stands, the one-slot buffer of ticker.C, the tick t that gc(t)
\* is sweeping with, and whether the database handle is open.
VARIABLES pc, tickerC, gcTime, dbOpen

gcvars == <<pc, tickerC, gcTime, dbOpen>>

\* A Reset of the redis adapter that is under way while other calls are made
\* (its iterator and what the other caller saw meanwhile); and a Result
\* with what a coercion accessor called on it has returned.
VARIABLES inflight, result, coerced

\* The memcache adapter's pool of scratch items with the Sets that use it;
\* and a configuration with what the adapter derives from it.
VARIABLES pool, config

extvars == <<pool, config>>

auxvars == <<inflight, result, coerced, pool, config>>

vars ==
    <<kind, namespace, now, table, last, pc, tickerC, gcTime, dbOpen,
      inflight, result, coerced, pool, config>>

(***************************************************************************)
(* Bounds of the model.                                                    *)
(***************************************************************************)
\* The clock runs from StartTime to MaxTime (half seconds).
MaxTime == 4
\* The longest duration passed to Set (half seconds).
MaxTTL == 2

\* The first instant of a run: one second after the Unix epoch.
StartTime == 2

Adapters == {"A", "B"}

\* Adapter kinds: the Result-returning variants and the original ones.
ResultKinds == {"mysql", "postgres", "sqlite3", "redis", "memcache"}
OriginalKinds == {"mysql_v1", "postgres_v1", "sqlite3_v1", "memcache_v1"}
Kinds == ResultKinds \cup OriginalKinds

IsMySQL(k) == k \in {"mysql", "mysql_v1"}
IsPostgres(k) == k \in {"postgres", "postgres_v1"}
IsSQLite(k) == k \in {"sqlite3", "sqlite3_v1"}
IsRelational(k) == IsMySQL(k) \/ IsPostgres(k) \/ IsSQLite(k)
IsRedis(k) == k = "redis"
IsMemcache(k) == k \in {"memcache", "memcache_v1"}

\* Keys the callers use; <<>> is the zero-length key.
EmptyKey == << >>
Keys == {EmptyKey, <<"k">>, <<"j">>}

\* The namespaces the two adapters are configured with.
NamespaceConfigs == { [A |-> <<"a">>, B |-> <<"b">>] }

(***************************************************************************)
(* Values.  A Go value is a record: its dynamic type, and its text or      *)
(* number.                                                                 *)
(***************************************************************************)
NilV == [t |-> "nil", s |-> "", n |-> 0]
StrV(x) == [t |-> "string", s |-> x, n |-> 0]
BytesV(x) == [t |-> "bytes", s |-> x, n |-> 0]
IntV(x) == [t |-> "int", s |-> "", n |-> x]
FloatV(x) == [t |-> "float64", s |-> "", n |-> x]

\* The values adapter A's caller stores, and the one adapter B's caller stores.
Values == {StrV("a"), IntV(7), NilV}
OtherValues == {StrV("b")}

\* Errors.
NoErr == "nil"
ErrEmptyKey == "storage keys cannot be zero length"
ErrNoKeys == "at least one key is required for Delete"
ErrNoRows == "sql: no rows in result set"
ErrConstraint == "constraint violation"
ErrCacheMiss == "memcache: cache miss"
ErrDecode == "json: invalid character"
ErrEngine == "engine failure"
ErrPanic == "panic"

(***************************************************************************)
(* Value codec.  Stored bytes are text; a stored cell is a []byte value.   *)
(***************************************************************************)
\* Standard base64 of the byte strings of the model.
Base64(x) == CASE x = "" -> "" [] x = "a" -> "YQ==" [] x = "doe" -> "ZG9l" [] OTHER -> x

\* json.Marshal: the JSON text of a value.
Marshal(v) ==
    CASE v.t = "nil" -> "null"
      [] v.t = "string" -> "\"" \o v.s \o "\""
      [] v.t = "bytes" -> "\"" \o Base64(v.s) \o "\""
      [] OTHER -> ToString(v.n)

\* What json.Unmarshal into an interface{} yields for a JSON document that
\* was the text of v: numbers become float64, byte slices stay base64 text.
Widen(v) ==
    CASE v.t = "int" -> FloatV(v.n)
      [] v.t = "bytes" -> StrV(Base64(v.s))
      [] OTHER -> v

\* The values whose JSON text the model can hold.
JSONValues ==
    Values \cup OtherValues \cup {FloatV(v.n) : v \in {w \in Values : w.t = "int"}}

\* json.Unmarshal(text, &decoded): [Value, Error].
Unmarshal(text) ==
    LET src == {v \in JSONValues : Marshal(v) = text}
    IN  IF src = {} THEN [Value |-> NilV, Error |-> ErrDecode]
        ELSE [Value |-> Widen(CHOOSE v \in src : TRUE), Error |-> NoErr]

\* database/sql's default conversion of a bare Go value bound to a BLOB
\* parameter: text as is, integers in decimal (nil is bound as SQL NULL).
DriverBytes(v) ==
    CASE v.t \in {"string", "bytes"} -> v.s
      [] v.t = "nil" -> ""
      [] OTHER -> ToString(v.n)

\* go-redis's argument encoding of a value, and what GET returns: a string.
RedisArg(v) ==
    CASE v.t \in {"string", "bytes"} -> v.s
      [] v.t = "nil" -> ""
      [] OTHER -> ToString(v.n)

(***************************************************************************)
(* Time.                                                                   *)
(***************************************************************************)
\* time.Time.Unix(): whole seconds of an instant given in half seconds.
Unix(t) == t \div 2

\* time.Duration.Seconds() converted by int32(): whole seconds of a duration.
WholeSeconds(d) == d \div 2

\* The optional duration of the variadic Set: absent means 0.
ExpiryArg(expiry) == IF Len(expiry) > 0 THEN expiry[1] ELSE 0

\* time.Now().Add(exp).Unix(), or 0 for no expiry (relational adapters).
ExpSeconds(t, exp) == IF exp # 0 THEN Unix(t + exp) ELSE 0

(***************************************************************************)
(* Namespace key scheme.                                                   *)
(***************************************************************************)
\* The cutset of strings.TrimRight in the redis constructor.
Cutset == {"/", "\\", " ", ":", "_", "-"}

RECURSIVE TrimRight(_, _)
TrimRight(str, cutset) ==
    IF Len(str) > 0 /\ str[Len(str)] \in cutset
    THEN TrimRight(SubSeq(str, 1, Len(str) - 1), cutset)
    ELSE str

\* RedisPrefix without the trimming of the trailing separators.
RedisPrefixUntrimmed(ns) == IF Len(ns) > 0 THEN ns \o <<":">> ELSE ns

\* redis New: the prefix kept in Storage.namespace.
RedisPrefix(ns) == IF Len(ns) > 0 THEN TrimRight(ns, Cutset) \o <<":">> ELSE ns

HasPrefix(str, prefix) ==
    Len(str) >= Len(prefix) /\ SubSeq(str, 1, Len(prefix)) = prefix

\* Storage.namespace of an adapter of kind k configured with namespace ns;
\* the memcache adapters have none.
StorageNamespace(k, ns) ==
    IF IsRedis(k) THEN RedisPrefix(ns) ELSE IF IsMemcache(k) THEN << >> ELSE ns

\* The key an adapter sends to a flat engine.
EffectiveKey(k, sns, key) == IF IsRedis(k) THEN sns \o key ELSE key

\* The namespace column of the rows an adapter writes (relational only).
Column(k, sns) == IF IsRelational(k) THEN sns ELSE << >>

(***************************************************************************)
(* The engine: a set of rows [key, namespace, value, expiry].              *)
(* expiry is in Unix seconds on the relational engines and memcache, in    *)
(* half seconds on redis; 0 is no expiry.                                  *)
(***************************************************************************)
Row(key, ns, value, expiry) ==
    [key |-> key, namespace |-> ns, value |-> value, expiry |-> expiry]

\* Whether an engine with native expiry still holds row r at instant t.
NativeLive(k, r, t) ==
    r.expiry = 0 \/ (IF IsRedis(k) THEN t < r.expiry ELSE Unix(t) < r.expiry)

\* sqlSelect: WHERE key = ? AND namespace = ?
SqlSelect(tbl, key, ns) == {r \in tbl : r.key = key /\ r.namespace = ns}

\* The rows that collide with (key, ns) under the table's primary key:
\* (namespace, key) on mysql, key alone on postgres and sqlite3.
PrimaryKeyHits(k, tbl, key, ns) ==
    IF IsMySQL(k) THEN {r \in tbl : r.key = key /\ r.namespace = ns}
    ELSE {r \in tbl : r.key = key}

\* sqlInsert with its six (sqlite3: four) bound arguments.
\* [table, err]
SqlInsert(k, tbl, key, val, exp, ns, updVal, updNull) ==
    LET hits == PrimaryKeyHits(k, tbl, key, ns)
    IN  IF hits = {}
        THEN [table |-> tbl \cup {Row(key, ns, val, exp)}, err |-> NoErr]
        ELSE IF IsSQLite(k) \/ updNull
        THEN [table |-> tbl, err |-> ErrConstraint]
        ELSE [table |-> (tbl \ hits) \cup
                        {[r EXCEPT !.value = updVal, !.expiry = exp] : r \in hits},
              err |-> NoErr]

\* sqlDelete: WHERE namespace = ? AND key IN (?)
SqlDelete(tbl, ns, keys) ==
    {r \in tbl : ~(r.namespace = ns /\ \E i \in 1..Len(keys) : r.key = keys[i])}

\* sqlReset: WHERE namespace = ?
SqlReset(tbl, ns) == {r \in tbl : r.namespace # ns}

\* sqlGC without its "expiry != 0" condition.
SqlGCNoSentinel(tbl, ns, unix) ==
    {r \in tbl : ~(r.namespace = ns /\ r.expiry <= unix)}

\* sqlGC without its condition on the namespace.
SqlGCAnyNamespace(tbl, ns, unix) ==
    {r \in tbl : ~(r.expiry <= unix /\ r.expiry # 0)}

\* sqlGC: WHERE namespace = ? AND expiry <= ? AND expiry != 0
SqlGC(tbl, ns, unix) ==
    {r \in tbl : ~(r.namespace = ns /\ r.expiry <= unix /\ r.expiry # 0)}

(***************************************************************************)
(* Results of the adapter operations.                                      *)
(***************************************************************************)
\* storage.Result; the original variants return (Value, Error) only and
\* Missed stays FALSE.
Result(value, err, missed) == [Value |-> value, Error |-> err, Missed |-> missed]

NoResult == Result(NilV, NoErr, FALSE)

\* What one call did: the engine after it, the returned Result (Get) or
\* error, and the number of requests issued to the engine.
Outcome(tbl, res, err, reqs) == [table |-> tbl, res |-> res, err |-> err, reqs |-> reqs]

GetOutcome(tbl, res, reqs) == Outcome(tbl, res, res.Error, reqs)

(***************************************************************************)
(* Relational adapters, Result-returning variant (mysql, postgres,         *)
(* sqlite3 differ in sqlInsert and the primary key only).                  *)
(***************************************************************************)
\* RelationalGet reporting an absent row as a miss and an error at once.
RelationalGetMissedError(k, tbl, t, sns, key, fail) ==
    IF Len(key) <= 0
    THEN GetOutcome(tbl, Result(NilV, ErrEmptyKey, FALSE), 0)
    ELSE LET rows == SqlSelect(tbl, key, sns)
         IN  IF rows = {}
             THEN GetOutcome(tbl, Result(NilV, ErrNoRows, TRUE), 1)
             ELSE LET store == CHOOSE r \in rows : TRUE
                      dec == Unmarshal(store.value.s)
                  IN  IF store.expiry # 0 /\ store.expiry <= Unix(t)
                      THEN GetOutcome(tbl, Result(NilV, NoErr, TRUE), 1)
                      ELSE GetOutcome(tbl, Result(dec.Value, dec.Error, FALSE), 1)

RelationalGet(k, tbl, t, sns, key, fail) ==
    IF Len(key) <= 0
    THEN GetOutcome(tbl, Result(NilV, ErrEmptyKey, FALSE), 0)
    ELSE IF fail
    THEN GetOutcome(tbl, Result(NilV, ErrEngine, FALSE), 1)
    ELSE LET rows == SqlSelect(tbl, key, sns)
         IN  IF rows = {}
             THEN GetOutcome(tbl, Result(NilV, ErrNoRows, FALSE), 1)
             ELSE LET store == CHOOSE r \in rows : TRUE
                      dec == Unmarshal(store.value.s)
                  IN  IF Len(store.key) = 0
                         \/ (store.expiry # 0 /\ store.expiry <= Unix(t))
                      THEN GetOutcome(tbl, Result(NilV, NoErr, TRUE), 1)
                      ELSE GetOutcome(tbl, Result(dec.Value, dec.Error, FALSE), 1)

\* RelationalSet without the check of the key's length.
RelationalSetUnchecked(k, tbl, t, sns, key, value, expiry, fail) ==
    LET val == BytesV(Marshal(value))
        ins == SqlInsert(k, tbl, key, val, ExpSeconds(t, ExpiryArg(expiry)), sns, val, FALSE)
    IN  Outcome(ins.table, NoResult, ins.err, 1)

RelationalSet(k, tbl, t, sns, key, value, expiry, fail) ==
    IF Len(key) <= 0
    THEN Outcome(tbl, NoResult, ErrEmptyKey, 0)
    ELSE LET exp == ExpiryArg(expiry)
             expSeconds == ExpSeconds(t, exp)
             val == BytesV(Marshal(value))
             ins == SqlInsert(k, tbl, key, val, expSeconds, sns, val, FALSE)
         IN  IF fail
             THEN Outcome(tbl, NoResult, ErrEngine, 1)
             ELSE Outcome(ins.table, NoResult, ins.err, 1)

RelationalDelete(k, tbl, sns, keys, fail) ==
    IF Len(keys) <= 0
    THEN Outcome(tbl, NoResult, ErrNoKeys, 0)
    ELSE IF \E i \in 1..Len(keys) : Len(keys[i]) = 0
    THEN Outcome(tbl, NoResult, ErrEmptyKey, 0)
    ELSE IF fail
    THEN Outcome(tbl, NoResult, ErrEngine, 1)
    ELSE Outcome(SqlDelete(tbl, sns, keys), NoResult, NoErr, 1)

RelationalReset(k, tbl, sns, fail) ==
    IF fail
    THEN Outcome(tbl, NoResult, ErrEngine, 1)
    ELSE Outcome(SqlReset(tbl, sns), NoResult, NoErr, 1)

\* RelationalGC sweeping with the time of construction, not the tick's.
RelationalGCStale(k, tbl, sns, tick, fail) ==
    IF fail THEN tbl ELSE SqlGC(tbl, sns, Unix(StartTime))

\* gc(t): one sweep statement; its error is discarded.
RelationalGC(k, tbl, sns, tick, fail) ==
    IF fail THEN tbl ELSE SqlGC(tbl, sns, Unix(tick))

(***************************************************************************)
(* Relational adapters, original variant.                                  *)
(***************************************************************************)
RelationalGetV1(k, tbl, t, sns, key, fail) ==
    IF Len(key) <= 0
    THEN GetOutcome(tbl, Result(NilV, ErrEmptyKey, FALSE), 0)
    ELSE IF fail
    THEN GetOutcome(tbl, Result(NilV, ErrEngine, FALSE), 1)
    ELSE LET rows == SqlSelect(tbl, key, sns)
         IN  IF rows = {}
             THEN GetOutcome(tbl, Result(NilV, NoErr, FALSE), 1)
             ELSE LET store == CHOOSE r \in rows : TRUE
                      dec == Unmarshal(store.value.s)
                  IN  IF store.expiry # 0 /\ store.expiry <= Unix(t)
                      THEN GetOutcome(tbl, Result(NilV, NoErr, FALSE), 1)
                      ELSE GetOutcome(tbl, Result(dec.Value, dec.Error, FALSE), 1)

\* The update arguments of sqlInsert are bound to the bare val, not to its
\* JSON text (sqlite3 binds four arguments and has no update clause).
RelationalSetV1(k, tbl, t, sns, key, val, exp, fail) ==
    IF Len(key) <= 0
    THEN Outcome(tbl, NoResult, ErrEmptyKey, 0)
    ELSE LET expSeconds == ExpSeconds(t, exp)
             value == BytesV(Marshal(val))
             ins == SqlInsert(k, tbl, key, value, expSeconds, sns,
                              BytesV(DriverBytes(val)), val.t = "nil")
         IN  IF fail
             THEN Outcome(tbl, NoResult, ErrEngine, 1)
             ELSE Outcome(ins.table, NoResult, ins.err, 1)

RelationalDeleteV1(k, tbl, sns, key, fail) ==
    IF Len(key) <= 0
    THEN Outcome(tbl, NoResult, ErrEmptyKey, 0)
    ELSE IF fail
    THEN Outcome(tbl, NoResult, ErrEngine, 1)
    ELSE Outcome(SqlDelete(tbl, sns, <<key>>), NoResult, NoErr, 1)

(***************************************************************************)
(* Redis adapter.  sns is Storage.namespace, the derived prefix.           *)
(***************************************************************************)
\* The rows redis still holds under physical key pkey at instant t.
RedisLookup(tbl, t, pkey) == {r \in tbl : r.key = pkey /\ NativeLive("redis", r, t)}

RedisGet(tbl, t, sns, key, fail) ==
    IF Len(key) <= 0
    THEN GetOutcome(tbl, Result(NilV, ErrEmptyKey, FALSE), 0)
    ELSE LET rows == RedisLookup(tbl, t, sns \o key)
         IN  IF fail
             THEN GetOutcome(tbl, Result(StrV(""), ErrEngine, FALSE), 1)
             ELSE IF rows = {}
             THEN GetOutcome(tbl, Result(NilV, NoErr, TRUE), 1)
             ELSE GetOutcome(tbl, Result((CHOOSE r \in rows : TRUE).value, NoErr, FALSE), 1)

RedisSet(tbl, t, sns, key, value, expiry, fail) ==
    IF Len(key) <= 0
    THEN Outcome(tbl, NoResult, ErrEmptyKey, 0)
    ELSE LET exp == ExpiryArg(expiry)
             pkey == sns \o key
             row == Row(pkey, << >>, StrV(RedisArg(value)), IF exp = 0 THEN 0 ELSE t + exp)
         IN  IF fail
             THEN Outcome(tbl, NoResult, ErrEngine, 1)
             ELSE Outcome({r \in tbl : r.key # pkey} \cup {row}, NoResult, NoErr, 1)

\* RedisDelete deleting each key as soon as it has passed the length check.
RedisDeleteEager(tbl, sns, keys, fail) ==
    IF Len(keys) <= 0
    THEN Outcome(tbl, NoResult, ErrNoKeys, 0)
    ELSE LET bad == {i \in 1..Len(keys) : Len(keys[i]) = 0}
             stop == IF bad = {} THEN Len(keys) + 1
                     ELSE CHOOSE i \in bad : \A j \in bad : i <= j
             left == {r \in tbl : ~\E i \in 1..(stop - 1) : r.key = sns \o keys[i]}
         IN  Outcome(left, NoResult, IF bad = {} THEN NoErr ELSE ErrEmptyKey, stop - 1)

\* The caller's slice after redis' Delete: the validation loop writes the
\* prefixed key back (keys[k] = v) for every key before the first empty
\* one, in the backing array the caller passed with keys... .
RedisDeleteKeys(sns, keys) ==
    LET bad == {i \in 1..Len(keys) : Len(keys[i]) = 0}
        stop == IF bad = {} THEN Len(keys) + 1
                ELSE CHOOSE i \in bad : \A j \in bad : i <= j
    IN  [i \in 1..Len(keys) |-> IF i < stop THEN sns \o keys[i] ELSE keys[i]]

RedisDelete(tbl, sns, keys, fail) ==
    IF Len(keys) <= 0
    THEN Outcome(tbl, NoResult, ErrNoKeys, 0)
    ELSE IF \E i \in 1..Len(keys) : Len(keys[i]) = 0
    THEN Outcome(tbl, NoResult, ErrEmptyKey, 0)
    ELSE IF fail
    THEN Outcome(tbl, NoResult, ErrEngine, 1)
    ELSE Outcome({r \in tbl : ~\E i \in 1..Len(keys) : r.key = sns \o keys[i]},
                 NoResult, NoErr, 1)

\* FlushDB for the empty namespace; otherwise a scan of prefix* and one
\* delete per key found, panicking on an engine error.
RedisReset(tbl, t, sns, fail) ==
    IF sns = << >>
    THEN IF fail THEN Outcome(tbl, NoResult, ErrEngine, 1)
         ELSE Outcome({}, NoResult, NoErr, 1)
    ELSE LET found == {r \in tbl : HasPrefix(r.key, sns) /\ NativeLive("redis", r, t)}
         IN  IF fail THEN Outcome(tbl, NoResult, ErrPanic, 1)
             ELSE Outcome(tbl \ found, NoResult, NoErr, 1 + Cardinality(found))

(***************************************************************************)
(* Memcache adapter (no namespace), Result-returning and original variant. *)
(***************************************************************************)
MemcacheLookup(tbl, t, key) == {r \in tbl : r.key = key /\ NativeLive("memcache", r, t)}

MemcacheGet(tbl, t, key, fail) ==
    IF Len(key) <= 0
    THEN GetOutcome(tbl, Result(NilV, ErrEmptyKey, FALSE), 0)
    ELSE LET rows == MemcacheLookup(tbl, t, key)
         IN  IF fail
             THEN GetOutcome(tbl, Result(NilV, ErrEngine, FALSE), 1)
             ELSE IF rows = {}
             THEN GetOutcome(tbl, Result(NilV, NoErr, TRUE), 1)
             ELSE GetOutcome(tbl, Result((CHOOSE r \in rows : TRUE).value, NoErr, FALSE), 1)

\* item.Expiration = int32(exp.Seconds()): whole seconds from now, 0 never.
MemcacheSet(tbl, t, key, value, expiry, fail) ==
    IF Len(key) <= 0
    THEN Outcome(tbl, NoResult, ErrEmptyKey, 0)
    ELSE LET exp == ExpiryArg(expiry)
             Expiration == WholeSeconds(exp)
             row == Row(key, << >>, value,
                        IF Expiration = 0 THEN 0 ELSE Unix(t) + Expiration)
         IN  IF fail
             THEN Outcome(tbl, NoResult, ErrEngine, 1)
             ELSE Outcome({r \in tbl : r.key # key} \cup {row}, NoResult, NoErr, 1)

\* One engine delete per key; their errors are dropped.
MemcacheDelete(tbl, keys, fail) ==
    IF Len(keys) <= 0
    THEN Outcome(tbl, NoResult, ErrNoKeys, 0)
    ELSE IF \E i \in 1..Len(keys) : Len(keys[i]) = 0
    THEN Outcome(tbl, NoResult, ErrEmptyKey, 0)
    ELSE IF fail
    THEN Outcome(tbl, NoResult, NoErr, Len(keys))
    ELSE Outcome({r \in tbl : ~\E i \in 1..Len(keys) : r.key = keys[i]},
                 NoResult, NoErr, Len(keys))

MemcacheReset(tbl, fail) ==
    IF fail THEN Outcome(tbl, NoResult, ErrEngine, 1)
    ELSE Outcome({}, NoResult, NoErr, 1)

MemcacheGetV1(tbl, t, key, fail) ==
    IF Len(key) <= 0
    THEN GetOutcome(tbl, Result(NilV, ErrEmptyKey, FALSE), 0)
    ELSE LET rows == MemcacheLookup(tbl, t, key)
         IN  IF fail
             THEN GetOutcome(tbl, Result(NilV, ErrEngine, FALSE), 1)
             ELSE IF rows = {}
             THEN GetOutcome(tbl, Result(NilV, NoErr, FALSE), 1)
             ELSE GetOutcome(tbl, Result((CHOOSE r \in rows : TRUE).value, NoErr, FALSE), 1)

\* The engine's delete reports a cache miss for a key it does not hold.
MemcacheDeleteV1(tbl, t, key, fail) ==
    IF Len(key) <= 0
    THEN Outcome(tbl, NoResult, ErrEmptyKey, 0)
    ELSE IF fail
    THEN Outcome(tbl, NoResult, ErrEngine, 1)
    ELSE IF MemcacheLookup(tbl, t, key) = {}
    THEN Outcome({r \in tbl : r.key # key}, NoResult, ErrCacheMiss, 1)
    ELSE Outcome({r \in tbl : r.key # key}, NoResult, NoErr, 1)

(***************************************************************************)
(* The storage contract, dispatched on the adapter kind.                   *)
(***************************************************************************)
Get(k, tbl, t, sns, key, fail) ==
    CASE k \in {"mysql", "postgres", "sqlite3"} -> RelationalGet(k, tbl, t, sns, key, fail)
      [] k \in {"mysql_v1", "postgres_v1", "sqlite3_v1"} ->
            RelationalGetV1(k, tbl, t, sns, key, fail)
      [] k = "redis" -> RedisGet(tbl, t, sns, key, fail)
      [] k = "memcache" -> MemcacheGet(tbl, t, key, fail)
      [] OTHER -> MemcacheGetV1(tbl, t, key, fail)

Set(k, tbl, t, sns, key, value, expiry, fail) ==
    CASE k \in {"mysql", "postgres", "sqlite3"} ->
            RelationalSet(k, tbl, t, sns, key, value, expiry, fail)
      [] k \in {"mysql_v1", "postgres_v1", "sqlite3_v1"} ->
            RelationalSetV1(k, tbl, t, sns, key, value, ExpiryArg(expiry), fail)
      [] k = "redis" -> RedisSet(tbl, t, sns, key, value, expiry, fail)
      [] OTHER -> MemcacheSet(tbl, t, key, value, expiry, fail)

Delete(k, tbl, t, sns, keys, fail) ==
    CASE k \in {"mysql", "postgres", "sqlite3"} -> RelationalDelete(k, tbl, sns, keys, fail)
      [] k \in {"mysql_v1", "postgres_v1", "sqlite3_v1"} ->
            RelationalDeleteV1(k, tbl, sns, keys[1], fail)
      [] k = "redis" -> RedisDelete(tbl, sns, keys, fail)
      [] k = "memcache" -> MemcacheDelete(tbl, keys, fail)
      [] OTHER -> MemcacheDeleteV1(tbl, t, keys[1], fail)

\* The caller's key slice after Delete(keys...): only redis writes to it.
DeleteKeys(k, sns, keys) ==
    IF k = "redis" THEN RedisDeleteKeys(sns, keys) ELSE keys

Reset(k, tbl, t, sns, fail) ==
    CASE IsRelational(k) -> RelationalReset(k, tbl, sns, fail)
      [] k = "redis" -> RedisReset(tbl, t, sns, fail)
      [] OTHER -> MemcacheReset(tbl, fail)

(***************************************************************************)
(* State machine.                                                          *)
(***************************************************************************)
\* The optional duration a caller passes to Set.
Expiries == {<< >>} \cup {<<d>> : d \in 0..MaxTTL}

\* What the callers pass.  Adapter A works on every key, with every value
\* on key k; adapter B is the other tenant of the engine and works on key k.
\* The engine answers every call but a Get.
\* A Get of key k by adapter A may also meet an engine failure.
GetInputs(ad) ==
    IF ad = "A"
    THEN {[key |-> x, fail |-> FALSE] : x \in Keys} \cup {[key |-> <<"k">>, fail |-> TRUE]}
    ELSE {[key |-> <<"k">>, fail |-> FALSE]}

SetInputs(ad) ==
    IF ad = "A"
    THEN {[key |-> <<"k">>, value |-> v, expiry |-> e] : v \in Values, e \in Expiries}
         \cup {[key |-> <<"j">>, value |-> StrV("a"), expiry |-> e] : e \in {<<0>>, <<1>>}}
         \cup {[key |-> EmptyKey, value |-> StrV("a"), expiry |-> <<1>>]}
    ELSE {[key |-> <<"k">>, value |-> v, expiry |-> e] : v \in OtherValues, e \in {<<0>>, <<1>>}}

DeleteInputs(ad) ==
    IF ad = "A"
    THEN {<< >>} \cup {<<x>> : x \in Keys}
         \cup {<< <<"k">>, <<"j">> >>, << <<"k">>, EmptyKey >>, << EmptyKey, <<"k">> >>}
    ELSE {<< <<"k">> >>}

\* Storage.namespace of adapter ad.
SNS(ad) == StorageNamespace(kind, namespace[ad])

\* The record of the latest call of a caller, and the instant it was made.
\* keysAfter is what the caller's key slice holds when the call returns.
Call(op, ad, keys, value, expiry, fail, at, out) ==
    [op |-> op, ad |-> ad, keys |-> keys, value |-> value, expiry |-> expiry,
     fail |-> fail, at |-> at, res |-> out.res, err |-> out.err, reqs |-> out.reqs,
     keysAfter |-> IF op = "Delete" THEN DeleteKeys(kind, SNS(ad), keys) ELSE keys]

NoCall(op, ad, at, fail) ==
    Call(op, ad, << >>, NilV, << >>, fail, at, Outcome({}, NoResult, NoErr, 0))

\* New: the GC goroutine has been started and waits in its select; nobody
\* has called Close.
\* No Reset under way.
NoReset == [pc |-> "idle", iter |-> {}, start |-> {}, calls |-> << >>]

\* No accessor called yet.
NoCoercion == [fn |-> "none", value |-> NilV, err |-> NoErr, missed |-> FALSE]

\* Nothing under way on the adapter's Results and no Reset in progress.
\* A scratch item as new(mc.Item) makes it.
ZeroItem == [Key |-> << >>, Value |-> NilV, Expiration |-> 0]

\* A goroutine that is not inside Set.
NoSet == [pc |-> "idle", item |-> 0, key |-> << >>, value |-> NilV, expiry |-> << >>,
          sent |-> ZeroItem]

\* New: the pool is empty and no item exists yet.
NoPool == [items |-> << >>, free |-> {}, sets |-> [ad \in Adapters |-> NoSet]]

\* No configuration under consideration.
NoConfig == [of |-> "none"]

AuxInit ==
    /\ pool = NoPool
    /\ config = NoConfig
    /\ inflight = NoReset
    /\ result = NoResult
    /\ coerced = NoCoercion

GCInit ==
    /\ pc = [gcTicker |-> "select", Close |-> "none", CloseAgain |-> "none"]
    /\ tickerC = << >>
    /\ gcTime = 0
    /\ dbOpen = TRUE
    /\ AuxInit

Init ==
    /\ kind \in Kinds
    /\ namespace \in NamespaceConfigs
    /\ now = StartTime
    /\ table = {}
    /\ last = NoCall("New", "A", StartTime, FALSE)
    /\ GCInit

DoGet(ad, key, fail) ==
    \E out \in {Get(kind, table, now, SNS(ad), key, fail)} :
        /\ table' = out.table
        /\ last' = Call("Get", ad, <<key>>, NilV, << >>, fail, now, out)
        /\ UNCHANGED <<auxvars, kind, namespace, now, gcvars>>

\* The original variants take the duration as a plain argument.
DoSet(ad, key, value, expiry, fail) ==
    /\ kind \in OriginalKinds => Len(expiry) = 1
    /\ \E out \in {Set(kind, table, now, SNS(ad), key, value, expiry, fail)} :
        /\ table' = out.table
        /\ last' = Call("Set", ad, <<key>>, value, expiry, fail, now, out)
        /\ UNCHANGED <<auxvars, kind, namespace, now, gcvars>>

\* The original variants delete one key per call.
DoDelete(ad, keys, fail) ==
    /\ kind \in OriginalKinds => Len(keys) = 1
    /\ \E out \in {Delete(kind, table, now, SNS(ad), keys, fail)} :
        /\ table' = out.table
        /\ last' = Call("Delete", ad, keys, NilV, << >>, fail, now, out)
        /\ UNCHANGED <<auxvars, kind, namespace, now, gcvars>>

DoReset(ad, fail) ==
    \E out \in {Reset(kind, table, now, SNS(ad), fail)} :
        /\ table' = out.table
        /\ last' = Call("Reset", ad, << >>, NilV, << >>, fail, now, out)
        /\ UNCHANGED <<auxvars, kind, namespace, now, gcvars>>

\* One sweep of adapter ad's GC goroutine, for a tick that fired at tick.
GC(ad, tick, fail) ==
    /\ IsRelational(kind)
    /\ table' = RelationalGC(kind, table, SNS(ad), tick, fail)
    /\ UNCHANGED <<auxvars, kind, namespace, now, last, gcvars>>

\* Half a second passes; engines with native expiry drop what has expired.
Tick ==
    /\ now < MaxTime
    /\ now' = now + 1
    /\ table' = IF IsRelational(kind) THEN table
                ELSE {r \in table : NativeLive(kind, r, now + 1)}
    /\ UNCHANGED <<auxvars, kind, namespace, last, gcvars>>

Next ==
    \/ \E ad \in Adapters : \E in \in GetInputs(ad) : DoGet(ad, in.key, in.fail)
    \/ \E ad \in Adapters : \E in \in SetInputs(ad) :
          DoSet(ad, in.key, in.value, in.expiry, FALSE)
    \/ \E ad \in Adapters : \E keys \in DeleteInputs(ad) : DoDelete(ad, keys, FALSE)
    \/ \E ad \in Adapters : DoReset(ad, FALSE)
    \/ \E ad \in Adapters : \E tick \in StartTime..now : GC(ad, tick, FALSE)
    \/ Tick

Spec == Init /\ [][Next]_vars

(***************************************************************************)
(* Vocabulary of the properties.                                           *)
(***************************************************************************)
\* The rows of tbl that hold adapter ad's entry for key.
EntryRows(tbl, ad, key) ==
    {r \in tbl : r.key = EffectiveKey(kind, SNS(ad), key)
                 /\ r.namespace = Column(kind, SNS(ad))}

\* What a stored cell reads back as: [Value, Error].
Decoded(r) ==
    IF IsRelational(kind) THEN Unmarshal(r.value.s)
    ELSE [Value |-> r.value, Error |-> NoErr]

\* What a value reads back as after one trip through the adapter's codec.
RoundTrip(v) ==
    IF IsRelational(kind) THEN Widen(v)
    ELSE IF IsRedis(kind) THEN StrV(RedisArg(v))
    ELSE v

\* A step that is a call of a caller.  The other steps, Tick and GC, keep the
\* call record and only remove rows; a call that repeats the one before it at
\* the same instant keeps the record too, and is seen by the row it rewrites.
CallStep == last' # last \/ ~(table' \subseteq table)

LastKey == last.keys[1]

\* "No such live entry", as each variant reports it.
IsMiss(res) ==
    IF kind \in ResultKinds THEN res.Missed /\ res.Error = NoErr
    ELSE res.Value = NilV /\ res.Error = NoErr

\* C1: on every Result-returning adapter, Get of a non-empty key that has
\* no entry in the adapter's namespace returns Missed = TRUE and no error
\* (the engine answering).
C1_AbsentIsMiss ==
    [][(CallStep /\ kind \in ResultKinds /\ last'.op = "Get" /\ ~last'.fail
        /\ Len(last'.keys[1]) > 0
        /\ EntryRows(table, last'.ad, last'.keys[1]) = {})
       => (last'.res.Missed /\ last'.res.Error = NoErr)]_vars

\* C2: a Result returned by Get has exactly one of: an error; Missed; a
\* value (no error, not missed, Value what the stored entry reads back as).
C2_HasError == last.res.Error # NoErr

C2_HasValue ==
    /\ last.res.Error = NoErr
    /\ ~last.res.Missed
    /\ \E r \in EntryRows(table, last.ad, LastKey) : last.res.Value = Decoded(r).Value

C2_ExactlyOne ==
    (kind \in ResultKinds /\ last.op = "Get" /\ last.at = now)
    => \/ C2_HasError /\ ~last.res.Missed /\ ~C2_HasValue
       \/ ~C2_HasError /\ last.res.Missed /\ ~C2_HasValue
       \/ ~C2_HasError /\ ~last.res.Missed /\ C2_HasValue

\* C2 witness: Get has just returned a stored null as a present value.
C2_NilValueReturned ==
    /\ kind \in ResultKinds /\ last.op = "Get" /\ last.at = now
    /\ C2_HasValue /\ last.res.Value = NilV

\* C3: Set(key, value, 0) without error, followed immediately by Get(key) on
\* the same adapter, returns the value as it reads back from the codec, with
\* no error and not missed.
C3_SetThenGet ==
    [][(CallStep /\ last.op = "Set" /\ last.err = NoErr /\ Len(LastKey) > 0
        /\ Len(last.expiry) = 1 /\ ExpiryArg(last.expiry) = 0
        /\ last'.op = "Get" /\ ~last'.fail
        /\ last'.ad = last.ad /\ last'.keys = last.keys
        /\ now' = last.at)
       => (last'.res = Result(RoundTrip(last.value), NoErr, FALSE))]_vars

\* The entry a successful Set(key, value, expiry) at instant t leaves
\* (relational adapters).
WrittenRow(ad, key, value, expiry, t) ==
    Row(key, SNS(ad), BytesV(Marshal(value)), ExpSeconds(t, ExpiryArg(expiry)))

\* C4: on every relational adapter, in both variants, a Set of a key that is
\* already stored in the adapter's namespace returns no error and replaces
\* value and expiry by those of this Set.
C4_SetOverwrites ==
    [][(CallStep /\ IsRelational(kind) /\ last'.op = "Set"
        /\ EntryRows(table, last'.ad, last'.keys[1]) # {})
       => (/\ last'.err = NoErr
           /\ EntryRows(table', last'.ad, last'.keys[1]) =
                 {WrittenRow(last'.ad, last'.keys[1], last'.value, last'.expiry, now)})]_vars

\* C5: once ttl > 0 has elapsed since a successful Set(key, value, ttl),
\* Get(key) returns a miss with no error.
C5_MissAfterTTL ==
    [][(CallStep /\ last.op = "Set" /\ last.err = NoErr /\ Len(LastKey) > 0
        /\ ExpiryArg(last.expiry) > 0
        /\ last'.op = "Get" /\ ~last'.fail
        /\ last'.ad = last.ad /\ last'.keys = last.keys
        /\ now' >= last.at + ExpiryArg(last.expiry))
       => IsMiss(last'.res)]_vars

\* C6: Get(key) returns the value at every instant strictly before
\* (time of the Set) + ttl, an immediate Get included.
C6_LiveBeforeExpiry ==
    [][(CallStep /\ last.op = "Set" /\ last.err = NoErr /\ Len(LastKey) > 0
        /\ ExpiryArg(last.expiry) > 0
        /\ last'.op = "Get" /\ ~last'.fail
        /\ last'.ad = last.ad /\ last'.keys = last.keys
        /\ now' < last.at + ExpiryArg(last.expiry))
       => (last'.res = Result(RoundTrip(last.value), NoErr, FALSE))]_vars

C8_EmptyKeyRejected ==
    [][(CallStep /\ last'.op \in {"Get", "Set", "Delete"}
        /\ Len(last'.keys) = 1 /\ Len(last'.keys[1]) = 0)
       => (/\ last'.err # NoErr
           /\ last'.op = "Get" => (last'.res.Error # NoErr /\ ~last'.res.Missed)
           /\ last'.reqs = 0
           /\ table' = table)]_vars

\* C8 witness: a Set with the zero-length key has just been refused while
\* the engine holds entries.
C8_EmptyKeySetRefused ==
    /\ last.op = "Set" /\ last.keys = <<EmptyKey>> /\ last.err = ErrEmptyKey
    /\ last.reqs = 0 /\ table # {}

\* C9: a Delete whose key list is empty, or holds a zero-length key at any
\* position, returns an error and removes no entry.
C9_DeleteAllOrNothing ==
    [][(CallStep /\ last'.op = "Delete"
        /\ (Len(last'.keys) = 0 \/ \E i \in 1..Len(last'.keys) : Len(last'.keys[i]) = 0))
       => (last'.err # NoErr /\ table' = table)]_vars

\* C9 witness: Delete(k, "") has just been refused and the entry under k,
\* the valid key before the empty one, is still stored.
C9_ValidKeyBeforeEmptyKept ==
    /\ last.op = "Delete" /\ last.keys = << <<"k">>, EmptyKey >> /\ last.at = now
    /\ last.err = ErrEmptyKey
    /\ EntryRows(table, last.ad, <<"k">>) # {}

\* C10: Delete of non-empty keys that are all absent returns no error and
\* leaves the store unchanged, in every adapter and variant.
C10_DeleteIdempotent ==
    [][(CallStep /\ last'.op = "Delete" /\ Len(last'.keys) > 0
        /\ \A i \in 1..Len(last'.keys) :
              /\ Len(last'.keys[i]) > 0
              /\ EntryRows(table, last'.ad, last'.keys[i]) = {})
       => (last'.err = NoErr /\ table' = table)]_vars

\* The rows of tbl that lie in adapter ad's namespace: its value of the
\* namespace column, its key prefix on redis, everything on memcache.
OwnRows(tbl, ad) ==
    IF IsRelational(kind) THEN {r \in tbl : r.namespace = SNS(ad)}
    ELSE IF IsRedis(kind) THEN {r \in tbl : HasPrefix(r.key, SNS(ad))}
    ELSE tbl

\* The other adapter on the engine.
Other(ad) == IF ad = "A" THEN "B" ELSE "A"

\* C11: a Delete(k1..kn) that returns no error removes nothing but the
\* adapter's own entries under k1..kn (every other key and every other
\* namespace keeps its entries), and a Get of any ki on the same adapter
\* after it is a miss with no error.
C11_DeleteFrame ==
    [][/\ (CallStep /\ last'.op = "Delete" /\ last'.err = NoErr)
          => /\ table' \subseteq table
             /\ \A r \in table \ table' :
                   \E i \in 1..Len(last'.keys) :
                      r \in EntryRows(table, last'.ad, last'.keys[i])
       /\ (CallStep /\ last.op = "Delete" /\ last.err = NoErr
           /\ last'.op = "Get" /\ ~last'.fail /\ last'.ad = last.ad
           /\ \E i \in 1..Len(last.keys) : last'.keys[1] = last.keys[i])
          => IsMiss(last'.res)]_vars

\* C12: a Reset() that returns no error leaves no entry in the adapter's own
\* namespace, and a Get of any key on the same adapter after it is a miss
\* with no error.
C12_ResetClears ==
    [][/\ (CallStep /\ last'.op = "Reset" /\ last'.err = NoErr)
          => OwnRows(table', last'.ad) = {}
       /\ (CallStep /\ last.op = "Reset" /\ last.err = NoErr
           /\ last'.op = "Get" /\ ~last'.fail /\ last'.ad = last.ad
           /\ Len(last'.keys[1]) > 0)
          => IsMiss(last'.res)]_vars

(***************************************************************************)
(* Two redis adapters on one database, over the namespaces a configuration *)
(* may give them.                                                          *)
(***************************************************************************)
\* The configured namespaces of the two adapters: the empty one, trailing
\* separator characters, one namespace extending the other.
RedisNamespaceConfigs ==
    { [A |-> << >>, B |-> <<"a">>],
      [A |-> <<"a">>, B |-> << >>],
      [A |-> <<"a">>, B |-> <<"a", "_">>],
      [A |-> <<"a">>, B |-> <<"a", ":", "b">>],
      [A |-> <<"a">>, B |-> <<"b">>],
      [A |-> <<"a", "_", "-">>, B |-> <<"b", ":">>],
      [A |-> <<"_">>, B |-> <<"b", " ", "/">>],
      [A |-> <<"a", "_", "b", "\\">>, B |-> <<"b">>] }

\* The keys the callers of the redis adapters use.
RedisKeys == {<<"k">>, <<"a", ":", "k">>}

\* The value each caller stores.
RedisValue(ad) == IF ad = "A" THEN StrV("a") ELSE StrV("b")

RedisInit ==
    /\ kind = "redis"
    /\ namespace \in RedisNamespaceConfigs
    /\ now = StartTime
    /\ table = {}
    /\ last = NoCall("New", "A", StartTime, FALSE)
    /\ GCInit

RedisNext ==
    \/ \E ad \in Adapters : \E key \in RedisKeys : DoGet(ad, key, FALSE)
    \/ \E ad \in Adapters : \E key \in RedisKeys :
          DoSet(ad, key, RedisValue(ad), <<0>>, FALSE)
    \/ \E ad \in Adapters : \E key \in RedisKeys : DoDelete(ad, <<key>>, FALSE)
    \/ \E ad \in Adapters : DoReset(ad, FALSE)

RedisSpec == RedisInit /\ [][RedisNext]_vars

\* What Get(key) through adapter ad returns on engine content tbl.
Reads(tbl, ad, key) == Get(kind, tbl, now, SNS(ad), key, FALSE).res

\* C13: a Reset() on one adapter leaves every entry of a differently
\* namespaced adapter on the same engine as it was, also when the resetting
\* adapter has the empty namespace and when the engine is redis.
C13_ResetFrame ==
    [][(CallStep /\ last'.op = "Reset"
        /\ namespace[last'.ad] # namespace[Other(last'.ad)])
       => \A key \in RedisKeys \cup (Keys \ {EmptyKey}) :
             EntryRows(table', Other(last'.ad), key)
                = EntryRows(table, Other(last'.ad), key)]_vars

\* A sweep of adapter ad's GC goroutine that removed something.
SweepBy(ad) ==
    /\ ~CallStep
    /\ table' # table
    /\ \E tick \in StartTime..now :
          table' = RelationalGC(kind, table, SNS(ad), tick, FALSE)

\* C14: on the relational adapters, with A and B configured with different
\* namespaces on one table, no Set, Delete, Reset or GC sweep of B changes
\* what any Get through A returns, for the keys both use included.
C14_NonInterference ==
    [][(IsRelational(kind) /\ namespace["A"] # namespace["B"]
        /\ \/ CallStep /\ last'.ad = "B" /\ last'.op \in {"Set", "Delete", "Reset"}
           \/ SweepBy("B"))
       => \A key \in Keys \ {EmptyKey} :
             Reads(table', "A", key) = Reads(table, "A", key)]_vars

\* C15: when adapter A holds key k, a Set(k, vB) with no expiry through
\* adapter B (another namespace, same table) returns no error, after it B
\* reads vB under k, and A reads under k what it read before.
C15_SameKeyTwoNamespaces ==
    [][(CallStep /\ IsRelational(kind) /\ namespace["A"] # namespace["B"]
        /\ last'.op = "Set" /\ last'.ad = "B"
        /\ Len(last'.keys[1]) > 0 /\ ExpiryArg(last'.expiry) = 0
        /\ EntryRows(table, "A", last'.keys[1]) # {})
       => (/\ last'.err = NoErr
           /\ Reads(table', "B", last'.keys[1])
                 = Result(RoundTrip(last'.value), NoErr, FALSE)
           /\ Reads(table', "A", last'.keys[1])
                 = Reads(table, "A", last'.keys[1]))]_vars

\* C16: two redis adapters configured with different namespace strings have
\* disjoint effective keys: no Set, Delete or Reset through one changes what
\* any Get through the other returns.
C16_PrefixIsolation ==
    [][(CallStep /\ IsRedis(kind)
        /\ namespace[last'.ad] # namespace[Other(last'.ad)]
        /\ last'.op \in {"Set", "Delete", "Reset"})
       => \A key \in RedisKeys :
             Reads(table', Other(last'.ad), key)
                = Reads(table, Other(last'.ad), key)]_vars

\* p is namespace ns with its trailing separator characters removed and
\* one ":" appended (empty for the empty namespace), and p, taken as a
\* namespace, gives p again.
PrefixShape(ns, p) ==
    IF Len(ns) = 0 THEN p = << >>
    ELSE /\ Len(p) >= 1
         /\ p[Len(p)] = ":"
         /\ LET stem == SubSeq(p, 1, Len(p) - 1)
            IN  /\ HasPrefix(ns, stem)
                /\ \A i \in (Len(stem) + 1)..Len(ns) : ns[i] \in Cutset
                /\ Len(stem) > 0 => stem[Len(stem)] \notin Cutset
         /\ StorageNamespace("redis", p) = p

\* C17: the prefix a redis adapter keeps is its configured namespace
\* without its trailing characters from / \ space : _ - and with exactly one
\* ":" appended (empty for the empty namespace); the prefix taken as a
\* namespace gives the same prefix; and the physical key of every Set, Get
\* and Delete is prefix + key.
C17_PrefixDerivation ==
    /\ [](IsRedis(kind) => \A ad \in Adapters : PrefixShape(namespace[ad], SNS(ad)))
    /\ [][(CallStep /\ IsRedis(kind) /\ last'.err = NoErr)
          => LET ad == last'.ad
                 ns == namespace[ad]
                 pkey == StorageNamespace("redis", ns) \o last'.keys[1]
             IN  /\ last'.op = "Set" =>
                       /\ \E r \in table' : r.key = pkey /\ r.value = RoundTrip(last'.value)
                       /\ \A r \in table : r.key # pkey => r \in table'
                 /\ last'.op = "Delete" =>
                       table' = {r \in table : r.key # pkey}
                 /\ last'.op = "Get" =>
                       /\ last'.res.Missed <=> ~\E r \in table : r.key = pkey
                       /\ \A r \in table : r.key = pkey => last'.res.Value = r.value]_vars

\* C17 witness: the adapter configured with "a_-" has just stored key k
\* under the physical key "a:k".
C17_TrimmedPrefixUsed ==
    /\ IsRedis(kind) /\ namespace["A"] = <<"a", "_", "-">>
    /\ last.op = "Set" /\ last.ad = "A" /\ last.keys = << <<"k">> >> /\ last.err = NoErr
    /\ \E r \in table : r.key = <<"a", ":", "k">>

(***************************************************************************)
(* The GC goroutine and Close of a relational adapter (adapter A).         *)
(* pc.gcTicker is "select" (waiting in the select of the loop), "gc"       *)
(* (inside gc(t), the sweep statement not yet executed) or "exited";       *)
(* pc.Close is "none" (not called), "send" (blocked in s.done <- ...),     *)
(* "dbClose" (the send is over, db.Close() is next) or "returned".         *)
(***************************************************************************)
GCKinds == {k \in Kinds : IsRelational(k)}

\* The durations the caller passes to Set while the goroutine runs.
GCExpiries == {<<d>> : d \in 0..MaxTTL}

\* DoneReady with a receiver that is left on s.done after the loop returned.
DoneReadyAlways(p) == p.gcTicker \in {"select", "exited"}

\* case <-s.done: the loop can take the stop signal only in its select.
DoneReady(p) == p.gcTicker = "select"

\* DoneHandoff with a loop that takes the signal and goes on looping.
DoneHandoffLoopOn(p) == [p EXCEPT !.Close = "dbClose"]

\* s.done is unbuffered: the send of Close and the receive of the loop are
\* one step, after which the loop returns and Close goes on to db.Close().
DoneHandoff(p) == [p EXCEPT !.gcTicker = "exited", !.Close = "dbClose"]

\* AfterSweep with a loop that returns when the sweep statement fails.
AfterSweepStopOnError(p, fail) ==
    [p EXCEPT !.gcTicker = IF fail THEN "exited" ELSE "select"]

\* gc(t) discards the result of Exec; the loop goes back to its select.
AfterSweep(p, fail) == [p EXCEPT !.gcTicker = "select"]

GCSpecInit ==
    /\ kind \in GCKinds
    /\ namespace \in NamespaceConfigs
    /\ now = StartTime
    /\ table = {}
    /\ last = NoCall("New", "A", StartTime, FALSE)
    /\ GCInit

\* Close is called: it blocks in the send on s.done.
CloseCall ==
    /\ pc.Close = "none"
    /\ pc' = [pc EXCEPT !.Close = "send"]
    /\ UNCHANGED <<auxvars, kind, namespace, now, table, last, tickerC, gcTime, dbOpen>>

\* The loop receives the stop signal and returns (its deferred
\* ticker.Stop() runs); the send of Close completes.
ReceiveDone ==
    /\ pc.Close = "send"
    /\ DoneReady(pc)
    /\ pc' = DoneHandoff(pc)
    /\ UNCHANGED <<auxvars, kind, namespace, now, table, last, tickerC, gcTime, dbOpen>>

\* return s.db.Close()
DbClose ==
    /\ pc.Close = "dbClose"
    /\ dbOpen' = FALSE
    /\ pc' = [pc EXCEPT !.Close = "returned"]
    /\ UNCHANGED <<auxvars, kind, namespace, now, table, last, tickerC, gcTime>>

\* The ticker puts the current time into the one-slot buffer of ticker.C
\* (a tick that finds the slot full is dropped).
TickerFire ==
    /\ pc.gcTicker # "exited"
    /\ tickerC = << >>
    /\ tickerC' = <<now>>
    /\ UNCHANGED <<auxvars, kind, namespace, now, table, last, pc, gcTime, dbOpen>>

\* case t := <-ticker.C
ReceiveTick ==
    /\ pc.gcTicker = "select"
    /\ tickerC # << >>
    /\ gcTime' = tickerC[1]
    /\ tickerC' = << >>
    /\ pc' = [pc EXCEPT !.gcTicker = "gc"]
    /\ UNCHANGED <<auxvars, kind, namespace, now, table, last, dbOpen>>

\* s.gc(t): the sweep statement runs, or fails (always on a closed handle).
Sweep(fail) ==
    /\ pc.gcTicker = "gc"
    /\ table' = RelationalGC(kind, table, SNS("A"), gcTime, fail \/ ~dbOpen)
    /\ pc' = AfterSweep(pc, fail)
    /\ UNCHANGED <<auxvars, kind, namespace, now, last, tickerC, gcTime, dbOpen>>

\* A Set through adapter A while its handle is open.
GCSet(expiry) ==
    /\ dbOpen
    /\ DoSet("A", <<"k">>, StrV("a"), expiry, FALSE)

GCNext ==
    \/ CloseCall
    \/ ReceiveDone
    \/ DbClose
    \/ TickerFire
    \/ ReceiveTick
    \/ \E fail \in BOOLEAN : Sweep(fail)
    \/ \E expiry \in GCExpiries : GCSet(expiry)
    \/ Tick

GCSpec == GCSpecInit /\ [][GCNext]_vars

\* The scheduling the claims about termination assume: the ticker keeps
\* firing, the goroutine is scheduled (a pending tick is taken, a sweep
\* statement ends, and the select does not pass over a ready stop signal
\* for ever), a sweep succeeds in the end, and Close goes on after its send.
GCFairSpec ==
    /\ GCSpec
    /\ WF_vars(TickerFire)
    /\ WF_vars(ReceiveTick)
    /\ WF_vars(\E fail \in BOOLEAN : Sweep(fail))
    /\ SF_vars(Sweep(FALSE))
    /\ SF_vars(ReceiveDone)
    /\ WF_vars(DbClose)

\* C18: Close hands the stop signal to the GC loop before it closes the
\* handle: when db.Close() is called, and ever after, the loop has exited,
\* so no sweep statement is started or executing then; the handle is closed
\* only from that state; and an exited loop never sweeps again.
C18_CloseStopsGC ==
    /\ [](pc.Close \in {"dbClose", "returned"} => pc.gcTicker = "exited")
    /\ [](~dbOpen => pc.gcTicker = "exited")
    /\ [][/\ (dbOpen /\ ~dbOpen') => (pc.Close = "dbClose" /\ pc.gcTicker = "exited")
          /\ pc.gcTicker = "exited" => (pc'.gcTicker = "exited" /\ gcTime' = gcTime)
          /\ ~dbOpen => table' = table]_vars

\* C18 witness: Close has returned while a tick was waiting in ticker.C and
\* an expired row was in the table: that tick is never swept.
C18_ClosedWithTickPending ==
    /\ pc.Close = "returned" /\ ~dbOpen /\ pc.gcTicker = "exited"
    /\ tickerC # << >>
    /\ \E r \in OwnRows(table, "A") : r.expiry # 0 /\ r.expiry <= Unix(tickerC[1])

\* C19: a call of Close always returns, whatever the GC goroutine is doing
\* when it is made (waiting, with a tick pending, or inside a sweep).
C19_CloseReturns == (pc.Close = "send") ~> (pc.Close = "returned")

\* C19 witness: Close has returned on an adapter whose goroutine had swept
\* and had another tick pending.
C19_ClosedAfterSweep ==
    /\ pc.Close = "returned" /\ gcTime > 0 /\ tickerC # << >>

\* The rows adapter A can have written under key k with an expiry.
GCRows ==
    {Row(<<"k">>, <<"a">>, BytesV(Marshal(StrV("a"))), e) : e \in 1..Unix(MaxTime + MaxTTL)}

\* Row r is in the table, in adapter A's namespace, and its expiry has passed.
Expired(r) ==
    /\ r \in OwnRows(table, "A")
    /\ r.expiry # 0
    /\ r.expiry <= Unix(now)

\* C20: while the adapter stays open, every row of its namespace whose
\* non-zero expiry has passed is eventually gone from the table, with no
\* Get, Delete or Reset being called.
C20_ExpiredEventuallySwept ==
    \A r \in GCRows : Expired(r) ~> (r \notin table \/ pc.Close # "none")

\* C20 witness: the goroutine has just swept with a tick at which a row the
\* caller stored had expired, and the row is gone.
C20_SweptExpiredRow ==
    /\ pc.Close = "none" /\ pc.gcTicker = "select" /\ gcTime > 0
    /\ last.op = "Set" /\ last.err = NoErr /\ ExpiryArg(last.expiry) > 0
    /\ Unix(last.at + ExpiryArg(last.expiry)) <= Unix(gcTime)
    /\ table = {}

\* C21: a GC sweep removes exactly the rows whose namespace is the sweeping
\* adapter's, whose expiry is not 0 and is at or before the tick's time (in
\* Unix seconds); every other row stays as it is.
C21_SweepFrame ==
    [][(IsRelational(kind) /\ ~CallStep /\ table' # table)
       => /\ table' \subseteq table
          /\ \E ad \in Adapters : \E tick \in StartTime..now :
                table \ table' =
                   {r \in table : /\ r.namespace = SNS(ad)
                                   /\ r.expiry # 0
                                   /\ r.expiry <= Unix(tick)}]_vars

\* C21 witness: adapter A's expired entry, the one it stored last, has been
\* swept, while an expired entry of namespace b and A's entry without expiry
\* are still in the table.
C21_OnlyOwnExpiredSwept ==
    /\ kind = "mysql"
    /\ last.op = "Set" /\ last.ad = "A" /\ last.err = NoErr
    /\ ExpiryArg(last.expiry) > 0
    /\ EntryRows(table, "A", LastKey) = {}
    /\ \E r \in table : r.namespace = SNS("B") /\ r.expiry # 0 /\ r.expiry <= Unix(now)
    /\ \E r \in table : r.namespace = SNS("A") /\ r.expiry = 0

\* A step in which a sweep statement fails: the sweep ends, rows it was to
\* delete are all still there.
FailedSweep ==
    /\ pc.gcTicker = "gc"
    /\ pc'.gcTicker # "gc"
    /\ table' = table
    /\ SqlGC(table, SNS("A"), Unix(gcTime)) # table

\* C22: a sweep that fails leaves the GC loop waiting in its select, the
\* handle open and the callers' results untouched; no call returns the
\* sweep's error; and the loop, while Close is not called, takes the next
\* tick and sweeps again.
C22_SweepFailureNonFatal ==
    /\ [][FailedSweep
          => (/\ pc'.gcTicker = "select"
              /\ pc'.Close = pc.Close
              /\ dbOpen' = dbOpen
              /\ last' = last)]_vars
    /\ [][CallStep => last'.err # ErrEngine]_vars
    /\ (pc.gcTicker = "select" /\ tickerC # << >>)
          ~> (pc.gcTicker = "gc" \/ pc.Close # "none")

\* C22 witness: the loop waits in its select with the handle open after a
\* sweep that left behind a row stored before the tick and expired at it.
C22_LoopAliveAfterFailure ==
    /\ pc.gcTicker = "select" /\ pc.Close = "none" /\ dbOpen
    /\ last.op = "Set" /\ last.err = NoErr /\ last.at < gcTime
    /\ \E r \in EntryRows(table, "A", LastKey) :
          /\ r = WrittenRow("A", LastKey, last.value, last.expiry, last.at)
          /\ r.expiry # 0
          /\ r.expiry <= Unix(gcTime)

(***************************************************************************)
(* Construction.  New(config) connects, and with cfg.Reset drops the       *)
(* table (relational), flushes the database (redis) or deletes every item  *)
(* (memcache) before it creates what it needs.                             *)
(***************************************************************************)
\* The engine content after New: DROP TABLE IF EXISTS, FlushDB and
\* DeleteAll take no namespace.
New(k, tbl, reset) == IF reset THEN {} ELSE tbl

\* The label of a construction in the call record.
NewOp(reset) == IF reset THEN "New(Reset)" ELSE "New"

\* Adapter ad is constructed again on the running engine.
DoNew(ad, reset) ==
    /\ table' = New(kind, table, reset)
    /\ last' = Call(NewOp(reset), ad, << >>, NilV, << >>, FALSE, now,
                    Outcome(New(kind, table, reset), NoResult, NoErr, 1))
    /\ UNCHANGED <<auxvars, kind, namespace, now, gcvars>>

\* Two tenants store under keys k and j and are constructed again, with or
\* without Reset.
NewNext ==
    \/ \E ad \in Adapters : \E key \in Keys \ {EmptyKey} :
          DoSet(ad, key, RedisValue(ad), <<0>>, FALSE)
    \/ \E ad \in Adapters : \E key \in Keys \ {EmptyKey} : DoGet(ad, key, FALSE)
    \/ \E ad \in Adapters : \E reset \in BOOLEAN : DoNew(ad, reset)

NewSpec == Init /\ [][NewNext]_vars

\* C23: constructing an adapter with the Reset flag clears only the data of
\* that adapter's own namespace: every entry another namespace holds in the
\* same table or database is still there after the construction.
C23_NewResetFrame ==
    [][(CallStep /\ last'.op = "New(Reset)"
        /\ namespace[last'.ad] # namespace[Other(last'.ad)])
       => \A key \in Keys \ {EmptyKey} :
             EntryRows(table', Other(last'.ad), key)
                = EntryRows(table, Other(last'.ad), key)]_vars

(***************************************************************************)
(* Calls that meet an engine failure.                                      *)
(***************************************************************************)
\* Every call of the two tenants may find the engine failing.
FaultNext ==
    \/ \E ad \in Adapters : \E fail \in BOOLEAN : DoGet(ad, <<"k">>, fail)
    \/ \E ad \in Adapters : \E fail \in BOOLEAN :
          DoSet(ad, <<"k">>, RedisValue(ad), <<0>>, fail)
    \/ \E ad \in Adapters : \E fail \in BOOLEAN :
          \E keys \in {<< <<"k">> >>, << <<"k">>, <<"j">> >>} : DoDelete(ad, keys, fail)
    \/ \E ad \in Adapters : \E fail \in BOOLEAN : DoReset(ad, fail)

FaultSpec == Init /\ [][FaultNext]_vars

\* C24: every engine failure during a Get, Set, Delete or Reset is returned
\* to the caller as the call's error: it is neither raised as a panic nor
\* swallowed, redis Reset with a failing scan or delete and memcache
\* multi-key Delete with a failing delete included.
C24_FailureSurfaced ==
    [][(CallStep /\ last'.fail /\ last'.reqs > 0
        /\ last'.op \in {"Get", "Set", "Delete", "Reset"})
       => /\ last'.err = ErrEngine
          /\ last'.op = "Get" => last'.res.Error = ErrEngine]_vars

(***************************************************************************)
(* Reset on redis, statement by statement, with a second goroutine calling *)
(* Get, Set and Delete on the same adapter (A).  Each redis command is     *)
(* atomic; Reset with a namespace is a SCAN and one DEL per key found.     *)
(***************************************************************************)
\* The calls of the second goroutine recorded while one Reset is under way.
MaxCalls == 2

\* The second goroutine's calls.
ConcCalls ==
    {[op |-> "Get", key |-> x, value |-> NilV] : x \in Keys \ {EmptyKey}}
    \cup {[op |-> "Set", key |-> x, value |-> v] :
             x \in Keys \ {EmptyKey}, v \in {StrV("a"), StrV("b")}}
    \cup {[op |-> "Delete", key |-> x, value |-> NilV] : x \in Keys \ {EmptyKey}}

\* What call c does on engine content tbl.
ConcApply(tbl, c) ==
    CASE c.op = "Get" -> Get(kind, tbl, now, SNS("A"), c.key, FALSE)
      [] c.op = "Set" -> Set(kind, tbl, now, SNS("A"), c.key, c.value, <<0>>, FALSE)
      [] OTHER -> Delete(kind, tbl, now, SNS("A"), <<c.key>>, FALSE)

\* iter := s.db.Scan(ctx, 0, s.namespace + "*", 0).Iterator(): the physical
\* keys the scan yields.
ScanKeys(tbl, t, sns) ==
    {r.key : r \in {x \in tbl : HasPrefix(x.key, sns) /\ NativeLive("redis", x, t)}}

\* Reset() is entered and the scan is taken.
ResetScan ==
    /\ inflight.pc \in {"idle", "done"}
    /\ SNS("A") # << >>
    /\ inflight' = [pc |-> "deleting", iter |-> ScanKeys(table, now, SNS("A")),
                    start |-> table, calls |-> << >>]
    /\ UNCHANGED <<extvars, result, coerced, kind, namespace, now, table, last, gcvars>>

\* for iter.Next(ctx) { s.db.Del(ctx, iter.Val()) }: one key per round.
ResetDel ==
    /\ inflight.pc = "deleting"
    /\ \E pkey \in inflight.iter :
          /\ table' = {r \in table : r.key # pkey}
          /\ inflight' = [inflight EXCEPT !.iter = @ \ {pkey}]
    /\ UNCHANGED <<extvars, result, coerced, kind, namespace, now, last, gcvars>>

\* The iterator is exhausted: return nil.
ResetReturn ==
    /\ inflight.pc = "deleting"
    /\ inflight.iter = {}
    /\ inflight' = [inflight EXCEPT !.pc = "done"]
    /\ last' = Call("Reset", "A", << >>, NilV, << >>, FALSE, now,
                    Outcome(table, NoResult, NoErr, 1))
    /\ UNCHANGED <<extvars, result, coerced, kind, namespace, now, table, gcvars>>

\* One call of the second goroutine; it is recorded with what it returned
\* when it falls between Reset's entry and return.  The record of a Reset
\* that has returned is dropped by the next call.
ConcCall(c) ==
    /\ inflight.pc = "deleting" => Len(inflight.calls) < MaxCalls
    /\ \E out \in {ConcApply(table, c)} :
          /\ table' = out.table
          /\ last' = Call(c.op, "A", <<c.key>>, c.value, <<0>>, FALSE, now, out)
          /\ inflight' =
                IF inflight.pc = "deleting"
                THEN [inflight EXCEPT !.calls =
                        Append(@, [op |-> c.op, key |-> c.key, value |-> c.value,
                                   res |-> out.res, err |-> out.err])]
                ELSE NoReset
    /\ UNCHANGED <<extvars, result, coerced, kind, namespace, now, gcvars>>

ConcInit ==
    /\ kind = "redis"
    /\ namespace \in NamespaceConfigs
    /\ now = StartTime
    /\ table = {}
    /\ last = NoCall("New", "A", StartTime, FALSE)
    /\ GCInit

ConcNext ==
    \/ ResetScan
    \/ ResetDel
    \/ ResetReturn
    \/ \E c \in ConcCalls : ConcCall(c)

ConcSpec == ConcInit /\ [][ConcNext]_vars

\* The recorded calls cs run one after the other from tbl: the content they
\* leave and whether each returned what was recorded.
RECURSIVE Replay(_, _)
Replay(tbl, cs) ==
    IF cs = << >> THEN [table |-> tbl, ok |-> TRUE]
    ELSE LET out == ConcApply(tbl, Head(cs))
             rest == Replay(out.table, Tail(cs))
         IN  [table |-> rest.table,
              ok |-> rest.ok /\ out.res = Head(cs).res /\ out.err = Head(cs).err]

\* The sequential order in which Reset takes effect, atomically, after the
\* first p recorded calls gives the recorded results and the present content.
Linearized(p) ==
    LET cs == inflight.calls
        before == Replay(inflight.start, SubSeq(cs, 1, p))
        after == Replay(Reset(kind, before.table, now, SNS("A"), FALSE).table,
                        SubSeq(cs, p + 1, Len(cs)))
    IN  before.ok /\ after.ok /\ after.table = table

\* C25: concurrent calls on one adapter leave the store in a state, and
\* return results, equal to those of some sequential order of the same calls
\* in which each call takes effect atomically between its invocation and
\* its return; this includes Reset on redis (a scan, then one delete per
\* key).  Stated when a Reset returns, over the calls made while it ran.
C25_ResetLinearizable ==
    inflight.pc = "done" => \E p \in 0..Len(inflight.calls) : Linearized(p)

(***************************************************************************)
(* Result and its accessors.  Here a Go value is a record of its dynamic   *)
(* type t, its text s (string, []uint8 and UUID: one character per         *)
(* element), its number n (integers; floats in tenths; bool 0 or 1; slices *)
(* 0 when nil and 1 otherwise), its numeric or bool elements xs and its    *)
(* string elements ss.  []byte and []uint8 are one type.                   *)
(***************************************************************************)
G(t, s, n, xs, ss) == [t |-> t, s |-> s, n |-> n, xs |-> xs, ss |-> ss]

GoNil == G("nil", << >>, 0, << >>, << >>)
GoBool(b) == G("bool", << >>, IF b THEN 1 ELSE 0, << >>, << >>)
GoString(s) == G("string", s, 0, << >>, << >>)
GoBytes(s) == G("[]uint8", s, 1, << >>, << >>)
GoNum(t, n) == G(t, << >>, n, << >>, << >>)
GoSlice(t, xs) == G(t, << >>, 1, xs, << >>)
GoNilSlice(t) == G(t, << >>, 0, << >>, << >>)
GoStrings(ss) == G("[]string", << >>, 1, << >>, ss)
GoUUID(s) == G("uuid", s, 0, << >>, << >>)
GoOpaque(t) == G(t, << >>, 1, << >>, << >>)

IntTypes == {"int", "int8", "int16", "int32", "int64",
             "uint", "uint8", "uint16", "uint32", "uint64"}
FloatTypes == {"float32", "float64"}
IntSliceTypes == {"[]int", "[]int8", "[]int16", "[]int32", "[]int64",
                  "[]uint", "[]uint8", "[]uint16", "[]uint32", "[]uint64"}
FloatSliceTypes == {"[]float32", "[]float64"}

\* Characters.
DigitChars == <<"0", "1", "2", "3", "4", "5", "6", "7", "8", "9">>
LowerChars == <<"a", "b", "c", "d", "e", "f", "g", "h", "i", "j", "k", "l", "m",
                "n", "o", "p", "q", "r", "s", "t", "u", "v", "w", "x", "y", "z">>
UpperChars == <<"A", "B", "C", "D", "E", "F", "G", "H", "I", "J", "K", "L", "M",
                "N", "O", "P", "Q", "R", "S", "T", "U", "V", "W", "X", "Y", "Z">>
IsIn(c, chars) == \E i \in 1..Len(chars) : chars[i] = c
IndexOf(c, chars) == CHOOSE i \in 1..Len(chars) : chars[i] = c
IsDigit(c) == IsIn(c, DigitChars)
DigitValue(c) == IndexOf(c, DigitChars) - 1

\* The byte of an ASCII character: what ranging over a []uint8 yields.
ByteOf(c) ==
    IF IsDigit(c) THEN 48 + DigitValue(c)
    ELSE IF IsIn(c, LowerChars) THEN 96 + IndexOf(c, LowerChars)
    ELSE IF IsIn(c, UpperChars) THEN 64 + IndexOf(c, UpperChars)
    ELSE CASE c = "+" -> 43 [] c = "-" -> 45 [] c = "." -> 46 [] OTHER -> 32

\* fmt.Sprintf("%d", n).
RECURSIVE NatText(_)
NatText(n) ==
    IF n < 10 THEN <<DigitChars[n + 1]>>
    ELSE NatText(n \div 10) \o <<DigitChars[(n % 10) + 1]>>

IntText(n) == IF n < 0 THEN <<"-">> \o NatText(-n) ELSE NatText(n)

\* fmt.Sprintf("%f", x) for x in tenths: six digits after the point.
FloatText(x) ==
    LET a == IF x < 0 THEN -x ELSE x
    IN  (IF x < 0 THEN <<"-">> ELSE << >>) \o NatText(a \div 10) \o <<".">>
        \o <<DigitChars[(a % 10) + 1]>> \o <<"0", "0", "0", "0", "0">>

\* math.Round of a float in tenths: to the nearest integer, halves away
\* from zero.
Round(x) == IF x >= 0 THEN (x + 5) \div 10 ELSE -((5 - x) \div 10)

\* The conversion of a float in tenths to an integer type: the fraction is
\* discarded.
Truncate(x) == IF x >= 0 THEN x \div 10 ELSE -((-x) \div 10)

\* What a strconv parser returns: the number and whether err == nil.
Parsed(n) == [ok |-> TRUE, n |-> n]
SyntaxError == [ok |-> FALSE, n |-> 0]

\* strconv.ParseBool(str).
ParseBool(str) ==
    IF str \in {<<"1">>, <<"t">>, <<"T">>, <<"T", "R", "U", "E">>,
                <<"t", "r", "u", "e">>, <<"T", "r", "u", "e">>}
    THEN Parsed(1)
    ELSE IF str \in {<<"0">>, <<"f">>, <<"F">>, <<"F", "A", "L", "S", "E">>,
                     <<"f", "a", "l", "s", "e">>, <<"F", "a", "l", "s", "e">>}
    THEN Parsed(0)
    ELSE SyntaxError

\* The digits of str from position i on, accumulated in base 10 on acc;
\* -1 at the first character that is no digit.
RECURSIVE Accumulate(_, _, _)
Accumulate(str, i, acc) ==
    IF i > Len(str) THEN acc
    ELSE IF ~IsDigit(str[i]) THEN -1
    ELSE Accumulate(str, i + 1, acc * 10 + DigitValue(str[i]))

\* ParseUint accepting a sign, as ParseInt does.
ParseUintSigned(str) ==
    IF str = << >> THEN SyntaxError
    ELSE LET body == IF str[1] \in {"+", "-"} THEN Tail(str) ELSE str
             n == Accumulate(body, 1, 0)
         IN  IF body = << >> \/ n < 0 THEN SyntaxError
             ELSE Parsed(IF str[1] = "-" THEN -n ELSE n)

\* strconv.ParseUint(str, 10, 64): digits only.
ParseUint(str) ==
    IF str = << >> THEN SyntaxError
    ELSE LET n == Accumulate(str, 1, 0)
         IN  IF n < 0 THEN SyntaxError ELSE Parsed(n)

\* strconv.ParseInt(str, 10, 64): an optional sign, then ParseUint.
ParseInt(str) ==
    IF str = << >> THEN SyntaxError
    ELSE LET neg == str[1] = "-"
             body == IF str[1] \in {"+", "-"} THEN Tail(str) ELSE str
             un == ParseUint(body)
         IN  IF ~un.ok THEN SyntaxError
             ELSE Parsed(IF neg THEN -un.n ELSE un.n)

\* strconv.ParseFloat(str, bitSize) on decimal texts with at most one digit
\* after the point (sign, digits, point, digit): the value in tenths.
ParseFloat(str) ==
    IF str = << >> THEN SyntaxError
    ELSE LET neg == str[1] = "-"
             body == IF str[1] \in {"+", "-"} THEN Tail(str) ELSE str
             dots == {i \in 1..Len(body) : body[i] = "."}
             dot == IF dots = {} THEN Len(body) + 1
                    ELSE CHOOSE i \in dots : \A j \in dots : i <= j
             whole == SubSeq(body, 1, dot - 1)
             frac == SubSeq(body, dot + 1, Len(body))
             w == Accumulate(whole, 1, 0)
             f == Accumulate(frac, 1, 0)
         IN  IF Len(whole) + Len(frac) = 0 \/ w < 0 \/ f < 0 \/ Len(frac) > 1
             THEN SyntaxError
             ELSE Parsed((IF neg THEN -1 ELSE 1) * (w * 10 + f))

\* Hexadecimal digits, and their lower-case form.
IsHex(c) ==
    IsDigit(c) \/ c \in {"a", "b", "c", "d", "e", "f", "A", "B", "C", "D", "E", "F"}
LowerHex(c) == IF IsIn(c, UpperChars) THEN LowerChars[IndexOf(c, UpperChars)] ELSE c

\* uuid.Parse / uuid.ParseBytes on texts of the canonical length (36:
\* xxxxxxxx-xxxx-xxxx-xxxx-xxxxxxxxxxxx), of 32 hexadecimal digits, and of
\* the lengths no form has.
UUIDNil == [i \in 1..32 |-> "0"]
NotHyphen(c) == c # "-"
ParseUUID(str) ==
    LET hyphens == {9, 14, 19, 24}
    IN  IF Len(str) = 36
             /\ \A i \in 1..36 : IF i \in hyphens THEN str[i] = "-" ELSE IsHex(str[i])
        THEN [ok |-> TRUE,
              s |-> [i \in 1..32 |-> LowerHex(SelectSeq(str, NotHyphen)[i])]]
        ELSE IF Len(str) = 32 /\ \A i \in 1..32 : IsHex(str[i])
        THEN [ok |-> TRUE, s |-> [i \in 1..32 |-> LowerHex(str[i])]]
        ELSE [ok |-> FALSE, s |-> UUIDNil]

\* What an accessor returns: (value, error, missed).
ErrNilValue == "values may not be nil"
ErrInvalid == "invalid value"
Returned(value, err, missed) == [value |-> value, err |-> err, missed |-> missed]
Converted(value) == Returned(value, NoErr, FALSE)

\* The accessors, and the zero value of what each returns.
ScalarAccessors == {"Bool", "Float32", "Float64", "Int", "Int64", "Uint64", "String"}
SliceAccessors == {"BoolSlice", "Float32Slice", "Float64Slice", "IntSlice",
                   "Int64Slice", "Uint64Slice", "StringSlice"}
Accessors == ScalarAccessors \cup SliceAccessors \cup {"Bytes", "UUID"}

Zero(fn) ==
    CASE fn = "Bool" -> GoBool(FALSE)
      [] fn = "Float32" -> GoNum("float32", 0)
      [] fn = "Float64" -> GoNum("float64", 0)
      [] fn = "Int" -> GoNum("int", 0)
      [] fn = "Int64" -> GoNum("int64", 0)
      [] fn = "Uint64" -> GoNum("uint64", 0)
      [] fn = "String" -> GoString(<< >>)
      [] fn = "BoolSlice" -> GoNilSlice("[]bool")
      [] fn = "Float32Slice" -> GoNilSlice("[]float32")
      [] fn = "Float64Slice" -> GoNilSlice("[]float64")
      [] fn = "IntSlice" -> GoNilSlice("[]int")
      [] fn = "Int64Slice" -> GoNilSlice("[]int64")
      [] fn = "Uint64Slice" -> GoNilSlice("[]uint64")
      [] fn = "StringSlice" -> GoNilSlice("[]string")
      [] fn = "Bytes" -> GoNilSlice("[]uint8")
      [] OTHER -> GoUUID(UUIDNil)

\* A failed conversion reported as a miss.
InvalidAsMiss(fn) == Returned(Zero(fn), NoErr, TRUE)

\* return zero, errors.New("invalid ... value"), false
Invalid(fn) == Returned(Zero(fn), ErrInvalid, FALSE)

\* The accessor converting before it has looked at Error and Missed.
GuardValueFirst(fn, r, converted) ==
    IF r.Value.t = "nil" THEN Returned(Zero(fn), ErrNilValue, FALSE)
    ELSE converted

\* The opening of every accessor: the error and the miss of the Get are
\* passed on, a nil Value is an error, and only then is Value converted.
Guard(fn, r, converted) ==
    IF r.Error # NoErr THEN Returned(Zero(fn), r.Error, r.Missed)
    ELSE IF r.Missed THEN Returned(Zero(fn), NoErr, TRUE)
    ELSE IF r.Value.t = "nil" THEN Returned(Zero(fn), ErrNilValue, FALSE)
    ELSE converted

\* Bool taking the number 1 alone for true.
ResultBoolOnlyOne(r) ==
    LET value == r.Value
    IN  Guard("Bool", r,
          CASE value.t = "bool" -> Converted(value)
            [] value.t \in {"[]uint8", "string"} ->
                 LET b == ParseBool(value.s)
                 IN  IF b.ok THEN Converted(GoBool(b.n = 1)) ELSE Invalid("Bool")
            [] value.t \in IntTypes -> Converted(GoBool(value.n = 1))
            [] value.t \in FloatTypes -> Converted(GoBool(value.n = 10))
            [] OTHER -> Invalid("Bool"))

ResultBool(r) ==
    LET value == r.Value
    IN  Guard("Bool", r,
          CASE value.t = "bool" -> Converted(value)
            [] value.t \in {"[]uint8", "string"} ->
                 LET b == ParseBool(value.s)
                 IN  IF b.ok THEN Converted(GoBool(b.n = 1)) ELSE Invalid("Bool")
            [] value.t \in IntTypes \cup FloatTypes -> Converted(GoBool(value.n # 0))
            [] OTHER -> Invalid("Bool"))

\* The slice accessors that accept their own slice type only.
SameSlice(fn, t, r) ==
    Guard(fn, r, IF r.Value.t = t THEN Converted(r.Value) ELSE Invalid(fn))

ResultBoolSlice(r) == SameSlice("BoolSlice", "[]bool", r)
ResultFloat32Slice(r) == SameSlice("Float32Slice", "[]float32", r)
ResultFloat64Slice(r) == SameSlice("Float64Slice", "[]float64", r)
ResultStringSlice(r) == SameSlice("StringSlice", "[]string", r)

ResultBytes(r) ==
    LET value == r.Value
    IN  Guard("Bytes", r,
          CASE value.t = "[]uint8" -> Converted(value)
            [] value.t = "string" -> Converted(GoBytes(value.s))
            [] OTHER -> Invalid("Bytes"))

\* Float32 and Float64, returning type t.
FloatOf(fn, t, r) ==
    LET value == r.Value
    IN  Guard(fn, r,
          CASE value.t = "bool" -> Converted(GoNum(t, value.n * 10))
            [] value.t \in {"[]uint8", "string"} ->
                 LET float == ParseFloat(value.s)
                 IN  IF float.ok THEN Converted(GoNum(t, float.n)) ELSE Invalid(fn)
            [] value.t \in IntTypes -> Converted(GoNum(t, value.n * 10))
            [] value.t \in FloatTypes -> Converted(GoNum(t, value.n))
            [] OTHER -> Invalid(fn))

ResultFloat32(r) == FloatOf("Float32", "float32", r)
ResultFloat64(r) == FloatOf("Float64", "float64", r)

\* Int and Int64, returning type t: floats go through math.Round.
SignedOf(fn, t, r) ==
    LET value == r.Value
    IN  Guard(fn, r,
          CASE value.t = "bool" -> Converted(GoNum(t, value.n))
            [] value.t \in {"[]uint8", "string"} ->
                 LET integer == ParseInt(value.s)
                 IN  IF integer.ok THEN Converted(GoNum(t, integer.n)) ELSE Invalid(fn)
            [] value.t \in IntTypes -> Converted(GoNum(t, value.n))
            [] value.t \in FloatTypes -> Converted(GoNum(t, Round(value.n)))
            [] OTHER -> Invalid(fn))

ResultInt(r) == SignedOf("Int", "int", r)
ResultInt64(r) == SignedOf("Int64", "int64", r)

\* Uint64: floats are converted with uint64(value).
ResultUint64(r) ==
    LET value == r.Value
    IN  Guard("Uint64", r,
          CASE value.t = "bool" -> Converted(GoNum("uint64", value.n))
            [] value.t \in {"[]uint8", "string"} ->
                 LET integer == ParseUint(value.s)
                 IN  IF integer.ok THEN Converted(GoNum("uint64", integer.n))
                     ELSE Invalid("Uint64")
            [] value.t \in IntTypes -> Converted(GoNum("uint64", value.n))
            [] value.t \in FloatTypes -> Converted(GoNum("uint64", Truncate(value.n)))
            [] OTHER -> Invalid("Uint64"))

\* The elements a range over a numeric slice yields.
Elems(value) ==
    IF value.t = "[]uint8" THEN [i \in 1..Len(value.s) |-> ByteOf(value.s[i])]
    ELSE value.xs

\* IntSlice, Int64Slice and Uint64Slice, returning slice type t: every
\* numeric and bool slice is accepted ([]uint8 among them) and float
\* elements go through math.Round.
IntSliceOf(fn, t, r) ==
    LET value == r.Value
    IN  Guard(fn, r,
          CASE value.t = t -> Converted(value)
            [] value.t = "[]bool" -> Converted(GoSlice(t, value.xs))
            [] value.t \in IntSliceTypes -> Converted(GoSlice(t, Elems(value)))
            [] value.t \in FloatSliceTypes ->
                 Converted(GoSlice(t, [i \in 1..Len(value.xs) |-> Round(value.xs[i])]))
            [] OTHER -> Invalid(fn))

ResultIntSlice(r) == IntSliceOf("IntSlice", "[]int", r)
ResultInt64Slice(r) == IntSliceOf("Int64Slice", "[]int64", r)
ResultUint64Slice(r) == IntSliceOf("Uint64Slice", "[]uint64", r)

ResultString(r) ==
    LET value == r.Value
    IN  Guard("String", r,
          CASE value.t = "bool" ->
                 Converted(GoString(IF value.n = 1 THEN <<"t", "r", "u", "e">>
                                    ELSE <<"f", "a", "l", "s", "e">>))
            [] value.t = "[]uint8" -> Converted(GoString(value.s))
            [] value.t = "string" -> Converted(value)
            [] value.t \in IntTypes -> Converted(GoString(IntText(value.n)))
            [] value.t \in FloatTypes -> Converted(GoString(FloatText(value.n)))
            [] OTHER -> Invalid("String"))

ResultUUID(r) ==
    LET value == r.Value
    IN  Guard("UUID", r,
          CASE value.t \in {"[]uint8", "string"} ->
                 LET token == ParseUUID(value.s)
                 IN  IF token.ok THEN Converted(GoUUID(token.s)) ELSE Invalid("UUID")
            [] OTHER -> Invalid("UUID"))

\* The accessor named fn called on Result r.
Coerce(fn, r) ==
    CASE fn = "Bool" -> ResultBool(r)
      [] fn = "BoolSlice" -> ResultBoolSlice(r)
      [] fn = "Bytes" -> ResultBytes(r)
      [] fn = "Float32" -> ResultFloat32(r)
      [] fn = "Float32Slice" -> ResultFloat32Slice(r)
      [] fn = "Float64" -> ResultFloat64(r)
      [] fn = "Float64Slice" -> ResultFloat64Slice(r)
      [] fn = "Int" -> ResultInt(r)
      [] fn = "IntSlice" -> ResultIntSlice(r)
      [] fn = "Int64" -> ResultInt64(r)
      [] fn = "Int64Slice" -> ResultInt64Slice(r)
      [] fn = "String" -> ResultString(r)
      [] fn = "StringSlice" -> ResultStringSlice(r)
      [] fn = "Uint64" -> ResultUint64(r)
      [] fn = "Uint64Slice" -> ResultUint64Slice(r)
      [] OTHER -> ResultUUID(r)

(***************************************************************************)
(* Accessor calls on Results.  Result is an exported struct: an adapter's  *)
(* Get fills it, and so may any caller.                                    *)
(***************************************************************************)
\* Texts stored as strings and as byte slices.
GoTexts ==
    {<< >>, <<"t", "r", "u", "e">>, <<"T", "r", "u", "e">>, <<"T">>, <<"1">>, <<"0">>,
     <<"f", "a", "l", "s", "e">>, <<"m", "a", "y", "b", "e">>, <<"1", "2">>,
     <<"1", "2", "x">>, <<"-", "1">>, <<"+", "5">>, <<"-">>, <<"3", ".", "7">>,
     <<"2", ".", "5">>, <<"1", "2", "3", "e", "4", "5", "6", "7", "-", "e", "8", "9",
       "b", "-", "1", "2", "D", "3", "-", "a", "4", "5", "6", "-", "4", "2", "6",
       "6", "1", "4", "1", "7", "4", "0", "0", "0">>}

ByteTexts ==
    {<< >>, <<"t", "r", "u", "e">>, <<"m", "a", "y", "b", "e">>, <<"1", "2">>,
     <<"1", "2", "x">>, <<"-", "1">>, <<"3", ".", "7">>}

\* Types no accessor converts.
UnsupportedTypes == {"map[string]int", "[][]int", "struct"}

\* The Values of the Results the accessors are called on.
GoValues ==
    {GoNil, GoBool(TRUE), GoBool(FALSE)}
    \cup {GoString(x) : x \in GoTexts}
    \cup {GoBytes(x) : x \in ByteTexts}
    \cup {GoNum("int", 0), GoNum("int", 3), GoNum("int64", 5), GoNum("uint8", 7),
          GoNum("uint64", 9)}
    \cup {GoNum("float64", x) : x \in {0, 4, 25, 32, 35, 37, 40}}
    \cup {GoNum("float32", 37)}
    \cup {GoSlice("[]bool", <<1, 0>>), GoSlice("[]bool", << >>),
          GoSlice("[]int", <<1, 2>>), GoNilSlice("[]int"), GoSlice("[]int64", <<5>>),
          GoSlice("[]uint64", <<9>>), GoSlice("[]float32", <<37>>),
          GoSlice("[]float64", <<37, 25, 32>>), GoStrings(<< <<"a">>, <<"1">> >>)}
    \cup {GoOpaque(t) : t \in UnsupportedTypes}

ResultInputs ==
    {Result(v, err, missed) : v \in GoValues, err \in {NoErr, ErrEngine}, missed \in BOOLEAN}

ResultInit ==
    /\ kind = "memcache"
    /\ namespace \in NamespaceConfigs
    /\ now = StartTime
    /\ table = {}
    /\ last = NoCall("New", "A", StartTime, FALSE)
    /\ pc = [gcTicker |-> "select", Close |-> "none", CloseAgain |-> "none"]
    /\ tickerC = << >>
    /\ gcTime = 0
    /\ dbOpen = TRUE
    /\ pool = NoPool
    /\ config = NoConfig
    /\ inflight = NoReset
    /\ result \in ResultInputs
    /\ coerced = NoCoercion

\* The accessor fn is called on the Result at hand.
CallAccessor(fn) ==
    /\ coerced' = [fn |-> fn, value |-> Coerce(fn, result).value,
                   err |-> Coerce(fn, result).err, missed |-> Coerce(fn, result).missed]
    /\ UNCHANGED <<extvars, inflight, result, kind, namespace, now, table, last, gcvars>>

\* Another Result comes to hand.
NextResult(r) ==
    /\ result' = r
    /\ coerced' = NoCoercion
    /\ UNCHANGED <<extvars, inflight, kind, namespace, now, table, last, gcvars>>

ResultNext ==
    \/ \E fn \in Accessors : CallAccessor(fn)
    \/ \E r \in ResultInputs : NextResult(r)

ResultSpec == ResultInit /\ [][ResultNext]_vars

\* An accessor has been called on the Result at hand.
Called == coerced.fn # "none"

\* The Get behind the Result returned a Value.
GotValue == result.Error = NoErr /\ ~result.Missed

\* C26: every accessor called on a Result with Error != nil returns (zero
\* value, that error, the Result's Missed flag), and called on a Result with
\* Error == nil and Missed == true returns (zero value, nil, true); in both
\* cases whatever Value holds makes no difference.
C26_GetOutcomePropagated ==
    (Called /\ ~GotValue)
       => /\ coerced.value = Zero(coerced.fn)
          /\ coerced.err = result.Error
          /\ coerced.missed = result.Missed
          /\ \A v \in GoValues :
                Coerce(coerced.fn, [result EXCEPT !.Value = v])
                   = Returned(coerced.value, coerced.err, coerced.missed)

C26_ErrorAndMissPassedOn ==
    /\ coerced.fn = "Int"
    /\ result = Result(GoString(<<"1", "2">>), ErrEngine, TRUE)
    /\ coerced.value = GoNum("int", 0)
    /\ coerced.err = ErrEngine
    /\ coerced.missed

\* C27: a failed conversion returns a non-nil error with the zero value of
\* the requested type and Missed = false, for every accessor and every
\* Value, nil and the unsupported types (maps, nested slices) included; no
\* accessor panics, and none returns a non-zero value with a non-nil error.
C27_FailedConversionZero ==
    Called
       => /\ coerced.err # ErrPanic
          /\ coerced.err # NoErr => coerced.value = Zero(coerced.fn)
          /\ (GotValue /\ coerced.err # NoErr) => ~coerced.missed
          /\ (GotValue /\ result.Value.t \in {"nil"} \cup UnsupportedTypes)
                => (coerced.err # NoErr /\ ~coerced.missed)

C27_MapRefused ==
    /\ coerced.fn = "Uint64"
    /\ GotValue
    /\ result.Value = GoOpaque("map[string]int")
    /\ coerced.err # NoErr
    /\ coerced.value = GoNum("uint64", 0)
    /\ ~coerced.missed

\* k is an integer nearest to the float x (in tenths).
Distance(k, x) == IF 10 * k >= x THEN 10 * k - x ELSE x - 10 * k
IsNearest(k, x) ==
    \A j \in ((x \div 10) - 1)..((x \div 10) + 2) : Distance(k, x) <= Distance(j, x)

\* C28: every integer accessor converts a floating-point Value by rounding
\* to the nearest integer, never by truncation: Int, Int64 and Uint64, and
\* the elements converted by IntSlice, Int64Slice and Uint64Slice (a stored
\* 3.7 yields 4 from each).
C28_FloatsRounded ==
    (Called /\ GotValue /\ coerced.err = NoErr)
       => /\ (coerced.fn \in {"Int", "Int64", "Uint64"} /\ result.Value.t \in FloatTypes)
                => IsNearest(coerced.value.n, result.Value.n)
          /\ (coerced.fn \in {"IntSlice", "Int64Slice", "Uint64Slice"}
              /\ result.Value.t \in FloatSliceTypes)
                => /\ Len(coerced.value.xs) = Len(result.Value.xs)
                   /\ \A i \in 1..Len(result.Value.xs) :
                         IsNearest(coerced.value.xs[i], result.Value.xs[i])

\* Base-10 integer texts: an optional sign where the type has one, then
\* digits and nothing else; and the number such a text denotes.
IsDecimal(str, signed) ==
    \E k \in {0, 1} :
       /\ k = 1 => (signed /\ Len(str) >= 1 /\ str[1] \in {"+", "-"})
       /\ Len(str) > k
       /\ \A i \in (k + 1)..Len(str) : IsDigit(str[i])

RECURSIVE Pow10(_)
Pow10(e) == IF e = 0 THEN 1 ELSE 10 * Pow10(e - 1)

RECURSIVE PlaceSum(_, _)
PlaceSum(str, i) ==
    IF i > Len(str) THEN 0
    ELSE (IF IsDigit(str[i]) THEN DigitValue(str[i]) * Pow10(Len(str) - i) ELSE 0)
         + PlaceSum(str, i + 1)

DecimalValue(str) == IF str[1] = "-" THEN -PlaceSum(str, 1) ELSE PlaceSum(str, 1)

\* C29: for a string or byte-slice Value, Bool, Int, Int64 and Uint64 return
\* the value the text denotes in the target type's grammar when it is well
\* formed (Bool on "true" gives (true, nil, false); integers are base 10),
\* and a conversion error with the zero value when it is malformed (Bool on
\* "maybe", Int on "12x", Uint64 on "-1").
C29_TextualCoercion ==
    (Called /\ GotValue /\ result.Value.t \in {"string", "[]uint8"})
       => LET text == result.Value.s
              failed == /\ coerced.err # NoErr
                        /\ coerced.value = Zero(coerced.fn)
                        /\ ~coerced.missed
              gives(v) == coerced = [fn |-> coerced.fn, value |-> v,
                                     err |-> NoErr, missed |-> FALSE]
          IN  /\ coerced.fn = "Bool"
                    => /\ text \in {<<"t", "r", "u", "e">>, <<"T", "r", "u", "e">>,
                                    <<"T">>, <<"1">>} => gives(GoBool(TRUE))
                       /\ text \in {<<"f", "a", "l", "s", "e">>, <<"0">>}
                             => gives(GoBool(FALSE))
                       /\ text \in {<<"m", "a", "y", "b", "e">>, << >>, <<"1", "2">>}
                             => failed
                       /\ failed \/ gives(GoBool(TRUE)) \/ gives(GoBool(FALSE))
              /\ coerced.fn = "Int"
                    => IF IsDecimal(text, TRUE) THEN gives(GoNum("int", DecimalValue(text)))
                       ELSE failed
              /\ coerced.fn = "Int64"
                    => IF IsDecimal(text, TRUE)
                       THEN gives(GoNum("int64", DecimalValue(text)))
                       ELSE failed
              /\ coerced.fn = "Uint64"
                    => IF IsDecimal(text, FALSE)
                       THEN gives(GoNum("uint64", DecimalValue(text)))
                       ELSE failed

C29_MinusOneRefusedByUint64 ==
    /\ coerced.fn = "Uint64"
    /\ GotValue
    /\ result.Value = GoString(<<"-", "1">>)
    /\ coerced.err # NoErr
    /\ coerced.value = GoNum("uint64", 0)

\* Scalar and sequence types; a byte slice is a text.
ScalarTypes == {"bool", "string", "[]uint8"} \cup IntTypes \cup FloatTypes
SequenceTypes ==
    {"[]bool", "[]string", "[][]int"} \cup (IntSliceTypes \ {"[]uint8"})
    \cup FloatSliceTypes

\* C30: the sequence accessors return a conversion error for every scalar
\* Value, a textual string or byte-slice value included, and the scalar
\* accessors return a conversion error for every Value that is a sequence.
C30_ShapeMismatchRefused ==
    (Called /\ GotValue)
       => /\ (coerced.fn \in SliceAccessors /\ result.Value.t \in ScalarTypes)
                => (coerced.err # NoErr /\ coerced.value = Zero(coerced.fn))
          /\ (coerced.fn \in ScalarAccessors /\ result.Value.t \in SequenceTypes)
                => (coerced.err # NoErr /\ coerced.value = Zero(coerced.fn))

(***************************************************************************)
(* A relational Set and Get with structured values: Set stores             *)
(* json.Marshal(value), Get decodes the cell with json.Unmarshal into an   *)
(* interface{} and hands the decoded value to the accessors.               *)
(***************************************************************************)
\* A JSON document: its kind j, and the text, number (in tenths) or elements.
Doc(j, s, n, xs, ss) == [t |-> j, s |-> s, n |-> n, xs |-> xs, ss |-> ss]

\* json.Marshal(value) for nil, bool, string, the numeric types and slices
\* of them (a nil slice is null).
JSONMarshal(v) ==
    CASE v.t = "nil" -> Doc("null", << >>, 0, << >>, << >>)
      [] v.t = "bool" -> Doc("bool", << >>, v.n, << >>, << >>)
      [] v.t = "string" -> Doc("string", v.s, 0, << >>, << >>)
      [] v.t \in IntTypes -> Doc("number", << >>, v.n * 10, << >>, << >>)
      [] v.t \in FloatTypes -> Doc("number", << >>, v.n, << >>, << >>)
      [] v.t \in {"[]bool", "[]string"} \cup (IntSliceTypes \ {"[]uint8"}) \cup FloatSliceTypes
         /\ v.n = 0 -> Doc("null", << >>, 0, << >>, << >>)
      [] v.t = "[]bool" -> Doc("array of bool", << >>, 0, v.xs, << >>)
      [] v.t = "[]string" -> Doc("array of string", << >>, 0, << >>, v.ss)
      [] v.t \in IntSliceTypes \ {"[]uint8"} ->
           Doc("array of number", << >>, 0, [i \in 1..Len(v.xs) |-> v.xs[i] * 10], << >>)
      [] v.t \in FloatSliceTypes -> Doc("array of number", << >>, 0, v.xs, << >>)
      [] OTHER -> Doc("object", << >>, 0, << >>, << >>)

\* var decoded interface{}; json.Unmarshal(store.Value, &decoded): numbers
\* become float64, arrays []interface{}, objects map[string]interface{}.
JSONUnmarshal(doc) ==
    CASE doc.t = "null" -> GoNil
      [] doc.t = "bool" -> GoBool(doc.n = 1)
      [] doc.t = "string" -> GoString(doc.s)
      [] doc.t = "number" -> GoNum("float64", doc.n)
      [] doc.t \in {"array of bool", "array of number", "array of string"} ->
           G("[]interface {}", << >>, 1, doc.xs, doc.ss)
      [] OTHER -> GoOpaque("map[string]interface {}")

\* The values the caller stores.
CodecValues ==
    {GoNil, GoBool(TRUE), GoString(<<"1", "2">>), GoNum("int", 3), GoNum("float64", 37),
     GoSlice("[]int", <<1, 2>>), GoSlice("[]int", << >>), GoSlice("[]int64", <<5>>),
     GoSlice("[]float64", <<37, 25>>), GoSlice("[]bool", <<1, 0>>),
     GoStrings(<< <<"a">>, <<"1">> >>)}

CodecInit ==
    /\ kind \in {"mysql", "postgres", "sqlite3"}
    /\ namespace \in NamespaceConfigs
    /\ now = StartTime
    /\ table = {}
    /\ last = NoCall("New", "A", StartTime, FALSE)
    /\ pc = [gcTicker |-> "select", Close |-> "none", CloseAgain |-> "none"]
    /\ tickerC = << >>
    /\ gcTime = 0
    /\ dbOpen = TRUE
    /\ pool = NoPool
    /\ config = NoConfig
    /\ inflight = NoReset
    /\ result = Result(GoNil, NoErr, TRUE)
    /\ coerced = NoCoercion

\* Set("k", v) with no expiry through adapter A.
CodecSet(v) ==
    /\ table' = {r \in table : r.key # <<"k">> \/ r.namespace # SNS("A")}
                \cup {Row(<<"k">>, SNS("A"), JSONMarshal(v), 0)}
    /\ last' = Call("Set", "A", << <<"k">> >>, NilV, << >>, FALSE, now,
                    Outcome({}, NoResult, NoErr, 1))
    /\ UNCHANGED <<auxvars, kind, namespace, now, gcvars>>

\* Get("k") through adapter A: the Result of the cell, or a miss.
CodecGet ==
    /\ LET rows == {r \in table : r.key = <<"k">> /\ r.namespace = SNS("A")}
       IN  result' = IF rows = {} THEN Result(GoNil, NoErr, TRUE)
                     ELSE Result(JSONUnmarshal((CHOOSE r \in rows : TRUE).value),
                                 NoErr, FALSE)
    /\ coerced' = NoCoercion
    /\ last' = Call("Get", "A", << <<"k">> >>, NilV, << >>, FALSE, now,
                    Outcome({}, NoResult, NoErr, 1))
    /\ UNCHANGED <<extvars, inflight, kind, namespace, now, table, gcvars>>

CodecNext ==
    \/ \E v \in CodecValues : CodecSet(v)
    \/ CodecGet
    \/ \E fn \in Accessors : CallAccessor(fn)

CodecSpec == CodecInit /\ [][CodecNext]_vars

\* The sequence accessor that matches a sequence type.
Matching(t) ==
    CASE t = "[]bool" -> "BoolSlice"
      [] t = "[]string" -> "StringSlice"
      [] t \in FloatSliceTypes -> "Float64Slice"
      [] OTHER -> "IntSlice"

\* The stored sequences.
CodecSequences ==
    {v \in CodecValues :
        v.t \in {"[]bool", "[]string"} \cup IntSliceTypes \cup FloatSliceTypes}

\* C31: a value stored through a relational adapter is recalled as its
\* original type: after Set(k, v) with v a homogeneous sequence of integers,
\* floats, booleans or strings, Get(k) and the matching sequence accessor
\* return a sequence element-wise equal to v, with no error.
C31_SequenceRecalled ==
    \A v \in CodecSequences :
       (/\ last.op = "Get"
        /\ \E r \in table : r.value = JSONMarshal(v)
        /\ coerced.fn = Matching(v.t))
          => /\ coerced.err = NoErr
             /\ ~coerced.missed
             /\ coerced.value.xs = v.xs
             /\ coerced.value.ss = v.ss

\* The number an accessor returning type t gives for one (floats are in
\* tenths).
One(t) == IF t \in FloatTypes THEN 10 ELSE 1

\* C32: boolean and numeric coercion agree and round-trip: every numeric
\* accessor maps true to 1 and false to 0, Bool maps every non-zero numeric
\* Value to true and zero to false, so Bool of what Int, Int64, Uint64 or
\* Float64 returns for a boolean b is b; and Bool of what String returns for
\* b is b.
C32_BoolNumericRoundTrip ==
    (Called /\ GotValue)
       => /\ (result.Value.t = "bool"
              /\ coerced.fn \in {"Int", "Int64", "Uint64", "Float32", "Float64"})
                => /\ coerced.err = NoErr
                   /\ coerced.value.n = result.Value.n * One(coerced.value.t)
                   /\ Coerce("Bool", Result(coerced.value, NoErr, FALSE))
                         = Returned(result.Value, NoErr, FALSE)
          /\ (result.Value.t = "bool" /\ coerced.fn = "String")
                => /\ coerced.err = NoErr
                   /\ Coerce("Bool", Result(coerced.value, NoErr, FALSE))
                         = Returned(result.Value, NoErr, FALSE)
          /\ (result.Value.t \in IntTypes \cup FloatTypes /\ coerced.fn = "Bool")
                => coerced = [fn |-> "Bool", value |-> GoBool(result.Value.n # 0),
                              err |-> NoErr, missed |-> FALSE]

C32_TrueThroughString ==
    /\ coerced.fn = "String"
    /\ GotValue
    /\ result.Value = GoBool(TRUE)
    /\ coerced.value = GoString(<<"t", "r", "u", "e">>)
    /\ Coerce("Bool", Result(coerced.value, NoErr, FALSE)).value = GoBool(TRUE)

(***************************************************************************)
(* The memcache adapter's Set, statement by statement, called by two       *)
(* goroutines (named as the callers A and B) on one Storage with its       *)
(* sync.Pool of scratch items.                                             *)
(***************************************************************************)
\* The items the pool's New function makes at most.
MaxItems == 2

\* releaseItem leaving the item's Value as it was.
ReleasedKeepingValue(item) == [item EXCEPT !.Key = << >>, !.Expiration = 0]

\* releaseItem: item.Key = "", item.Value = nil, item.Expiration = 0.
Released(item) == [Key |-> << >>, Value |-> NilV, Expiration |-> 0]

\* s.items.Get(): an item of the pool, or a new one (the pool promises no
\* more than that).
Acquirable == pool.free \cup (IF Len(pool.items) < MaxItems THEN {Len(pool.items) + 1} ELSE {})

\* Set is entered: the key is checked and an item acquired.
SetEnter(g, key, value, expiry) ==
    /\ pool.sets[g].pc = "idle"
    /\ IF Len(key) <= 0
       THEN /\ last' = Call("Set", g, <<key>>, value, expiry, FALSE, now,
                            Outcome(table, NoResult, ErrEmptyKey, 0))
            /\ UNCHANGED pool
       ELSE /\ \E id \in Acquirable :
                  pool' = [items |-> IF id > Len(pool.items)
                                     THEN Append(pool.items, ZeroItem) ELSE pool.items,
                           free |-> pool.free \ {id},
                           sets |-> [pool.sets EXCEPT ![g] =
                                       [pc |-> "acquired", item |-> id, key |-> key,
                                        value |-> value, expiry |-> expiry,
                                        sent |-> ZeroItem]]]
            /\ UNCHANGED last
    /\ UNCHANGED <<config, inflight, result, coerced, kind, namespace, now, table, gcvars>>

\* item.Key = key; item.Value = value; item.Expiration = int32(exp.Seconds())
SetFill(g) ==
    /\ pool.sets[g].pc = "acquired"
    /\ pool' = [pool EXCEPT
                  !.items[pool.sets[g].item] =
                      [Key |-> pool.sets[g].key, Value |-> pool.sets[g].value,
                       Expiration |-> WholeSeconds(ExpiryArg(pool.sets[g].expiry))],
                  !.sets[g].pc = "filled"]
    /\ UNCHANGED <<config, inflight, result, coerced, kind, namespace, now, table, last,
                   gcvars>>

\* err := s.db.Set(item): the engine stores what the item holds, or fails.
SetSend(g, fail) ==
    /\ pool.sets[g].pc = "filled"
    /\ LET item == pool.items[pool.sets[g].item]
           row == Row(item.Key, << >>, item.Value,
                      IF item.Expiration = 0 THEN 0 ELSE Unix(now) + item.Expiration)
       IN  /\ table' = IF fail THEN table
                       ELSE {r \in table : r.key # item.Key} \cup {row}
           /\ pool' = [pool EXCEPT !.sets[g].pc = IF fail THEN "failed" ELSE "sent",
                                   !.sets[g].sent = item]
    /\ UNCHANGED <<config, inflight, result, coerced, kind, namespace, now, last, gcvars>>

\* s.releaseItem(item); return err
SetRelease(g) ==
    /\ pool.sets[g].pc \in {"sent", "failed"}
    /\ pool' = [pool EXCEPT
                  !.items[pool.sets[g].item] = Released(@),
                  !.free = @ \cup {pool.sets[g].item},
                  !.sets[g] = NoSet]
    /\ last' = Call("Set", g, <<pool.sets[g].key>>, pool.sets[g].value,
                    pool.sets[g].expiry, pool.sets[g].pc = "failed", now,
                    Outcome(table, NoResult,
                            IF pool.sets[g].pc = "failed" THEN ErrEngine ELSE NoErr, 1))
    /\ UNCHANGED <<config, inflight, result, coerced, kind, namespace, now, table, gcvars>>

PoolInit ==
    /\ kind = "memcache"
    /\ namespace \in NamespaceConfigs
    /\ now = StartTime
    /\ table = {}
    /\ last = NoCall("New", "A", StartTime, FALSE)
    /\ GCInit

PoolNext ==
    \/ \E g \in Adapters : \E key \in Keys : \E e \in {<< >>, <<2>>} :
          SetEnter(g, key, RedisValue(g), e)
    \/ \E g \in Adapters : SetFill(g)
    \/ \E g \in Adapters : \E fail \in BOOLEAN : SetSend(g, fail)
    \/ \E g \in Adapters : SetRelease(g)

PoolSpec == PoolInit /\ [][PoolNext]_vars

\* C33: every item is put back into the pool with Key, Value and Expiration
\* cleared, after a Set that succeeded and after one that failed; so every
\* item acquireItem hands out has the three fields at their zero values,
\* and under every interleaving of concurrent Sets no item is held by two
\* Sets at once and no Set sends a key or value written by another Set.
C33_PoolItemsCleared ==
    /\ \A id \in pool.free : pool.items[id] = ZeroItem
    /\ \A g \in Adapters :
          /\ pool.sets[g].pc = "acquired" => pool.items[pool.sets[g].item] = ZeroItem
          /\ pool.sets[g].pc # "idle" => pool.sets[g].item \notin pool.free
          /\ pool.sets[g].pc \in {"sent", "failed"}
                => /\ pool.sets[g].sent.Key = pool.sets[g].key
                   /\ pool.sets[g].sent.Value = pool.sets[g].value
          /\ \A h \in Adapters \ {g} :
                (pool.sets[g].pc # "idle" /\ pool.sets[h].pc # "idle")
                   => pool.sets[g].item # pool.sets[h].item

\* B has acquired the one item there is, which A's failed Set put back,
\* while A is in its next Set with a second item.
C33_ReusedAfterFailure ==
    /\ last.op = "Set" /\ last.ad = "A" /\ last.err = ErrEngine
    /\ Len(pool.items) = 2
    /\ pool.sets["B"].pc = "acquired" /\ pool.sets["B"].item = 1
    /\ pool.items[1] = ZeroItem
    /\ pool.sets["A"].pc = "sent" /\ pool.sets["A"].item = 2

(***************************************************************************)
(* Configuration.  New(config ...Config) takes at most one Config, given   *)
(* here as a sequence; an address "host:port" and a connection URI         *)
(* "redis://host:port" are records of their host and port.                 *)
(***************************************************************************)
Addr(host, port) == [host |-> host, port |-> port]

\* The empty ConnectionURI.
NoURI == Addr("", 0)

\* redis: ConfigDefault.Host, ConfigDefault.Port and ConfigDefault.Addresses.
RedisDefaultHost == "127.0.0.1"
RedisDefaultPort == 6379
RedisConfigDefault ==
    [ConnectionURI |-> NoURI, Addresses |-> << >>, Host |-> RedisDefaultHost,
     Port |-> RedisDefaultPort]

\* redis configDefault(config...).
RedisConfig(given) ==
    IF Len(given) < 1 THEN RedisConfigDefault
    ELSE [given[1] EXCEPT
            !.Host = IF @ = "" THEN RedisDefaultHost ELSE @,
            !.Port = IF @ <= 0 THEN RedisDefaultPort ELSE @]

\* redis.ParseURL(uri).Addr: the URI's host and port, the port 6379 when the
\* URI names none.
ParseURLAddr(uri) == Addr(uri.host, IF uri.port = 0 THEN RedisDefaultPort ELSE uri.port)

\* Config.getUniversalOptions().Addrs.
UniversalAddrs(c) ==
    IF c.ConnectionURI # NoURI THEN <<ParseURLAddr(c.ConnectionURI)>>
    ELSE IF Len(c.Addresses) > 0 THEN <<Addr(c.Host, c.Port)>>
    ELSE c.Addresses

\* The redis configurations tried.
RedisConfigs ==
    [ConnectionURI : {NoURI, Addr("localhost", 6379), Addr("localhost", 0), Addr("h", 6380)},
     Addresses : {<< >>, <<Addr("localhost", 6355)>>,
                  <<Addr("localhost", 6379), Addr("h", 6380)>>},
     Host : {"", "localhost", "h"},
     Port : {0, 6379, 6388}]

\* mysql and postgres: ConfigDefault.GCInterval, 10 * time.Second, in
\* half-seconds.
DefaultGCInterval == 20

\* mysql and postgres configDefault(config...).GCInterval for a Config with
\* GCInterval d: int(cfg.GCInterval.Seconds()) <= 0 selects the default.
RelationalGCInterval(given) ==
    IF Len(given) < 1 THEN DefaultGCInterval
    ELSE IF WholeSeconds(given[1]) <= 0 THEN DefaultGCInterval
    ELSE given[1]

\* The GCInterval of the configurations tried: none given, unset (0), half a
\* second and more.
GCIntervals == {<< >>} \cup {<<d>> : d \in 0..(MaxTime + 1)}

\* New(config...) of the redis adapter: the addresses it connects to.
RedisNew(given) ==
    /\ kind = "redis"
    /\ config' = [of |-> "redis", given |-> given,
                  Addrs |-> UniversalAddrs(RedisConfig(given)), gcInterval |-> 0]
    /\ UNCHANGED <<pool, inflight, result, coerced, kind, namespace, now, table, last,
                   gcvars>>

\* New(config...) of a relational adapter: the interval its ticker gets.
RelationalNew(given) ==
    /\ kind \in {"mysql", "postgres"}
    /\ config' = [of |-> kind, given |-> given, Addrs |-> << >>,
                  gcInterval |-> RelationalGCInterval(given)]
    /\ UNCHANGED <<pool, inflight, result, coerced, kind, namespace, now, table, last,
                   gcvars>>

ConfigInit ==
    /\ kind \in {"redis", "mysql", "postgres"}
    /\ namespace \in NamespaceConfigs
    /\ now = StartTime
    /\ table = {}
    /\ last = NoCall("New", "A", StartTime, FALSE)
    /\ GCInit

ConfigNext ==
    \/ \E given \in {<< >>} \cup {<<c>> : c \in RedisConfigs} : RedisNew(given)
    \/ \E given \in GCIntervals : RelationalNew(given)

ConfigSpec == ConfigInit /\ [][ConfigNext]_vars

\* The fields of the one Config given.
Given == config.given[1]

\* C34: redis address resolution: with a non-empty ConnectionURI the address
\* parsed from it is used and Addresses, Host and Port are ignored; with an
\* empty ConnectionURI and non-empty Addresses the configured Addresses are
\* used unchanged and Host and Port are ignored; Host:Port is used only when
\* ConnectionURI and Addresses are both empty.
C34_AddressPrecedence ==
    (config.of = "redis" /\ Len(config.given) = 1)
       => /\ Given.ConnectionURI # NoURI
                => config.Addrs = <<ParseURLAddr(Given.ConnectionURI)>>
          /\ (Given.ConnectionURI = NoURI /\ Given.Addresses # << >>)
                => config.Addrs = Given.Addresses
          /\ (Given.ConnectionURI = NoURI /\ Given.Addresses = << >>)
                => config.Addrs =
                      <<Addr(IF Given.Host = "" THEN RedisDefaultHost ELSE Given.Host,
                             IF Given.Port <= 0 THEN RedisDefaultPort ELSE Given.Port)>>

\* C35: the GC timer of a relational adapter ticks at the configured
\* interval whenever that is positive, intervals under one second included,
\* and at the 10-second default only when none is configured; the interval
\* in effect is always positive.
C35_GCIntervalHonoured ==
    config.of \in {"mysql", "postgres"}
       => /\ config.gcInterval > 0
          /\ (Len(config.given) = 1 /\ config.given[1] > 0)
                => config.gcInterval = config.given[1]
          /\ (Len(config.given) = 0 \/ config.given = <<0>>)
                => config.gcInterval = DefaultGCInterval

(***************************************************************************)
(* Hit and Miss.                                                           *)
(***************************************************************************)
\* func (r *Result) Hit() bool { return !r.Missed }
ResultHit(r) == ~r.Missed

\* func (r *Result) Miss() bool { return r.Missed }
ResultMiss(r) == r.Missed

\* Hit() or Miss() is called on the Result at hand.
CallFlag(fn) ==
    /\ coerced' = [fn |-> fn,
                   value |-> GoBool(IF fn = "Hit" THEN ResultHit(result)
                                    ELSE ResultMiss(result)),
                   err |-> NoErr, missed |-> FALSE]
    /\ UNCHANGED <<extvars, inflight, result, kind, namespace, now, table, last, gcvars>>

FlagNext ==
    \/ \E fn \in {"Hit", "Miss"} : CallFlag(fn)
    \/ \E r \in ResultInputs : NextResult(r)

FlagSpec == ResultInit /\ [][FlagNext]_vars

\* C36: Hit() reports whether a live value was found: true only for a
\* Result that carries a value (Error nil and Missed false), false for a
\* miss and for a Result whose Error is non-nil.
C36_HitMeansValue ==
    coerced.fn = "Hit"
       => (coerced.value = GoBool(TRUE) <=> (result.Error = NoErr /\ ~result.Missed))

(***************************************************************************)
(* The sweep as seen through Get.                                          *)
(***************************************************************************)
\* C37: the GC sweep is unobservable through Get: every row a sweep deletes
\* was already a miss, so after a sweep that removed rows each Get, through
\* either adapter and for every key, returns what it returned before it.
C37_SweepUnobservable ==
    [][(IsRelational(kind) /\ \E ad \in Adapters : SweepBy(ad))
       => \A ad \in Adapters, key \in Keys \ {EmptyKey} :
             Reads(table', ad, key) = Reads(table, ad, key)]_vars

(***************************************************************************)
(* Close called twice on one adapter.                                      *)
(***************************************************************************)
\* A second call of Close, made once the first call has been made: it
\* blocks in its own send on s.done.
CloseCallAgain ==
    /\ pc.Close # "none"
    /\ pc.CloseAgain = "none"
    /\ pc' = [pc EXCEPT !.CloseAgain = "send"]
    /\ UNCHANGED <<auxvars, kind, namespace, now, table, last, tickerC, gcTime, dbOpen>>

\* The loop receives the second call's signal (when two sends are pending
\* the select of the one goroutine takes either of them).
ReceiveDoneAgain ==
    /\ pc.CloseAgain = "send"
    /\ DoneReady(pc)
    /\ pc' = [DoneHandoff(pc) EXCEPT !.Close = pc.Close, !.CloseAgain = "dbClose"]
    /\ UNCHANGED <<auxvars, kind, namespace, now, table, last, tickerC, gcTime, dbOpen>>

\* return s.db.Close() of the second call.
DbCloseAgain ==
    /\ pc.CloseAgain = "dbClose"
    /\ dbOpen' = FALSE
    /\ pc' = [pc EXCEPT !.CloseAgain = "returned"]
    /\ UNCHANGED <<auxvars, kind, namespace, now, table, last, tickerC, gcTime>>

CloseTwiceNext ==
    \/ GCNext
    \/ CloseCallAgain
    \/ ReceiveDoneAgain
    \/ DbCloseAgain

CloseTwiceSpec == GCSpecInit /\ [][CloseTwiceNext]_vars

\* A call of Close that got past its send on s.done.
PastSend(c) == c \in {"dbClose", "returned"}

\* C38: the adapter has one GC goroutine, never restarted, and the stop
\* signal of Close is consumed once: at most one call of Close ever gets
\* past its send; once the goroutine has taken the signal it stays exited
\* and sweeps nothing; a call of Close that is in its send then stays there
\* for ever; and once the database is closed no call of Close closes it
\* again.
C38_SecondCloseBlocks ==
    /\ [](~(PastSend(pc.Close) /\ PastSend(pc.CloseAgain)))
    /\ [](PastSend(pc.Close) \/ PastSend(pc.CloseAgain) => pc.gcTicker = "exited")
    /\ [][/\ pc.gcTicker = "exited"
             => /\ pc'.gcTicker = "exited"
                /\ gcTime' = gcTime
                /\ ~CallStep => table' = table
                /\ pc.Close = "send" => pc'.Close = "send"
                /\ pc.CloseAgain = "send" => pc'.CloseAgain = "send"
          /\ ~dbOpen
             => /\ ~dbOpen'
                /\ pc'.Close \in {pc.Close, "send"}
                /\ pc'.CloseAgain \in {pc.CloseAgain, "send"}]_vars

\* C38 witness: the first Close has returned with the database closed, the
\* second call is blocked in its send, and a tick and an expired row are
\* left that nothing will ever sweep.
C38_SecondCloseBlocked ==
    /\ pc.Close = "returned" /\ pc.CloseAgain = "send"
    /\ pc.gcTicker = "exited" /\ ~dbOpen
    /\ tickerC # << >>
    /\ \E r \in OwnRows(table, "A") : r.expiry # 0 /\ r.expiry <= Unix(tickerC[1])

(***************************************************************************)
(* The caller's keys after Delete.                                         *)
(***************************************************************************)
\* C39: Delete leaves its argument unchanged: when Delete(keys...) has
\* returned, with or without an error, the caller's key sequence holds the
\* strings it held before the call, on redis too, with all keys valid and
\* with an empty key after valid ones.
C39_DeleteArgumentUnchanged ==
    last.op = "Delete" => last.keysAfter = last.keys

====
